---------------------------- MODULE Spec2Model ----------------------------
(***************************************************************************)
(* Figure scripts of the manuscript repository: the torque-balance root    *)
(* finders (fig3 find_equilibrium_spin, fig4 find_a_eq), the bounded Euler *)
(* integrator (fig4 time_to_equilibrium), the CSV helpers (load_eps_list,  *)
(* fig5 to_float, fig6 as_float / fmt_* / as_check) and the fig6 column    *)
(* selection.                                                              *)
(*                                                                         *)
(* Numbers.  A Python float that holds a finite real is modelled in fixed  *)
(* point: the integer x stands for x / Scale, Scale = 10^8, and every      *)
(* product, quotient and square root is rounded to the nearest unit, as    *)
(* IEEE arithmetic rounds to the nearest double.  NaN is never a fixed     *)
(* point number: where the code produces it (a failed parse, the           *)
(* exhausted integrator) the model carries an explicit NaN mark.           *)
(* TLC integers are 32 bits wide, so products are formed in halves.        *)
(***************************************************************************)
EXTENDS Integers, Sequences, FiniteSets, TLC

----------------------------------------------------------------------------
(* Fixed-point arithmetic *)

Half == 100 * 100
Scale == Half * Half

\* F(x) with x evaluated once: TLC evaluates a definition of a LET, or an
\* argument of an operator, again at every use, and a bound variable once
Let(x, F(_)) == CHOOSE v \in { F(l) : l \in {x} } : TRUE

Abs(x) == IF x < 0 THEN -x ELSE x

\* numpy.sign (fig3 line 35, fig4 line 52)
Sign(x) == IF x > 0 THEN 1 ELSE IF x < 0 THEN -1 ELSE 0

\* n / d for n >= 0, d > 0, rounded to nearest
RDivNat(n, d) == (n \div d) + (IF 2 * (n % d) >= d THEN 1 ELSE 0)

RDiv(n, d) == Let(n, LAMBDA v : IF v < 0 THEN -RDivNat(-v, d) ELSE RDivNat(v, d))

\* The product x*y of two naturals as <<hi, lo>>: x*y = hi*Scale + lo
MulHiLo(x, y) ==
    LET xh == x \div Half
        xl == x % Half
        yh == y \div Half
        yl == y % Half
        m  == xh * yl + xl * yh
        low == (m % Half) * Half + xl * yl
    IN  << xh * yh + (m \div Half) + (low \div Scale), low % Scale >>

MulNat(x, y) ==
    Let(MulHiLo(x, y), LAMBDA p : p[1] + (IF 2 * p[2] >= Scale THEN 1 ELSE 0))

\* float product x*y
MulS(x, y) ==
    Let(<< x, y >>, LAMBDA c :
        IF (c[1] < 0) = (c[2] < 0)
        THEN MulNat(Abs(c[1]), Abs(c[2]))
        ELSE -MulNat(Abs(c[1]), Abs(c[2])))

\* <<q, r>> with x*y = q*d + r, 0 <= r < d, for naturals x, y and d > 0
RECURSIVE MulDivRem(_, _, _)
MulDivRem(x, y, d) ==
    IF y = 0 THEN << 0, 0 >>
    ELSE Let(MulDivRem(x, y \div 2, d), LAMBDA h :
         Let(<< 2 * h[1] + (IF y % 2 = 1 THEN x \div d ELSE 0),
                2 * h[2] + (IF y % 2 = 1 THEN x % d ELSE 0) >>, LAMBDA c :
             << c[1] + (c[2] \div d), c[2] % d >>))

MulDivNat(x, y, d) ==
    Let(MulDivRem(x, y, d), LAMBDA h : h[1] + (IF 2 * h[2] >= d THEN 1 ELSE 0))

\* float x*y/d, d # 0
MulDiv(x, y, d) ==
    Let(<< x, y, d >>, LAMBDA c :
        IF ((c[1] < 0) = (c[2] < 0)) = (c[3] > 0)
        THEN MulDivNat(Abs(c[1]), Abs(c[2]), Abs(c[3]))
        ELSE -MulDivNat(Abs(c[1]), Abs(c[2]), Abs(c[3])))

\* r*r <= x*Scale
SqLe(r, x) ==
    Let(MulHiLo(r, r), LAMBDA p : p[1] < x \/ (p[1] = x /\ p[2] = 0))

\* the largest r in lo..hi-1 with r*r <= x*Scale, given lo*lo <= x*Scale < hi*hi
RECURSIVE SqrtBis(_, _, _)
SqrtBis(x, lo, hi) ==
    IF hi - lo <= 1 THEN lo
    ELSE IF SqLe((lo + hi) \div 2, x)
         THEN SqrtBis(x, (lo + hi) \div 2, hi)
         ELSE SqrtBis(x, lo, (lo + hi) \div 2)

\* the largest i in lo..hi-1 with i*i <= x, given lo*lo <= x < hi*hi
RECURSIVE ISqrtBis(_, _, _)
ISqrtBis(x, lo, hi) ==
    IF hi - lo <= 1 THEN lo
    ELSE IF ((lo + hi) \div 2) * ((lo + hi) \div 2) <= x
         THEN ISqrtBis(x, (lo + hi) \div 2, hi)
         ELSE ISqrtBis(x, lo, (lo + hi) \div 2)

\* floor(sqrt(x * Scale)) for 0 <= x < 16 * Scale.  With i = floor(sqrt(x))
\* and d = x - i*i, sqrt(x*Scale) lies in Half*(i + d/(2i)) - Half/(2i) ..
\* Half*(i + d/(2i)), which leaves a short interval to bisect.
SqrtFloor(x) ==
    Let(ISqrtBis(x, 0, 4 * Half), LAMBDA i :
        IF i = 0 THEN SqrtBis(x, 0, Half)
        ELSE Let(i * Half + (((x - i * i) * Half) \div (2 * i)), LAMBDA r0 :
             Let((Half \div (2 * i)) + 2, LAMBDA w :
                 SqrtBis(x, IF r0 - w < i * Half THEN i * Half ELSE r0 - w, r0 + 2))))

\* float x ** 0.5 for 0 <= x < 16
SqrtS(x) ==
    Let(x, LAMBDA v :
    Let(SqrtFloor(v), LAMBDA r :
    Let(MulHiLo(r, r), LAMBDA p :
        IF v > p[1] + ((p[2] + r) \div Scale) THEN r + 1 ELSE r)))

\* float x ** 1.5 for 0 <= x < 16
Pow15(x) == Let(x, LAMBDA v : MulS(v, SqrtS(v)))

----------------------------------------------------------------------------
(* Root bracketing and linear interpolation (fig3, fig4) *)

\* numpy.linspace(lo, hi, n)[i], n >= 1
Linspace(lo, hi, n, i) ==
    Let(i, LAMBDA j :
        IF n = 1 THEN lo
        ELSE IF j = n - 1 THEN hi
        ELSE lo + j * ((hi - lo) \div (n - 1))
                + RDivNat(j * ((hi - lo) % (n - 1)), n - 1))

\* torque_balance without the factor (1.0 - 0.1*eps) of the spin-up term
torque_balance_unscaled(a, eps) ==
    Let(a, LAMBDA v :
        IF v <= Scale
        THEN Pow15(Scale - v) - MulS(eps, MulS(v, v))
        ELSE -MulS(eps, MulS(v, v)))

\* fig4 torque_balance(a, eps), real part.  For a > 1 the base 1 - a is
\* negative and Python's float ** 1.5 is complex, (1-a)**1.5 = -i*(a-1)**1.5
\* (its real part, 1e-16 of the modulus, is below one unit).
torque_balance(a, eps) ==
    Let(a, LAMBDA v :
        IF v <= Scale
        THEN MulS(Pow15(Scale - v), Scale - RDiv(eps, 10)) - MulS(eps, MulS(v, v))
        ELSE -MulS(eps, MulS(v, v)))

\* fig4 torque_balance(a, eps), imaginary part (0 for a <= 1)
torque_balance_im(a, eps) ==
    IF a <= Scale THEN 0
    ELSE -MulS(Pow15(a - Scale), Scale - RDiv(eps, 10))

\* fig3 torque_balance(a, eps) on a grid a <= 1
fig3_torque_balance(a, eps) ==
    Let(a, LAMBDA v :
        MulS(Pow15(Scale - v), Scale - RDiv(eps, 10)) - MulS(eps, MulS(v, v)))

\* the least element of a non-empty set of integers
Least(S) == CHOOSE i \in S : \A j \in S : i <= j

\* np.where(np.diff(np.sign(y)) != 0)[0] for y of length n
SignChanges(y, n) == { i \in 0..(n - 2) : Sign(y[i + 1]) # Sign(y[i]) }

\* np.argmin(y), the abs left out
ArgMinSigned(y, n) ==
    Let(Least({ y[i] : i \in 0..(n - 1) }), LAMBDA m :
        Least({ i \in 0..(n - 1) : y[i] = m }))

\* np.argmin(np.abs(y)) for y of length n: the first index of the least |y|
ArgMinAbs(y, n) ==
    Let(Least({ Abs(y[i]) : i \in 0..(n - 1) }), LAMBDA m :
        Least({ i \in 0..(n - 1) : Abs(y[i]) = m }))

\* the interpolation with the correction added instead of subtracted
InterpolatePlus(x1, x2, y1, y2) == x1 + MulDiv(y1, x2 - x1, y2 - y1)

\* fig4 line 57: x1 - y1*(x2 - x1)/(y2 - y1)
Interpolate(x1, x2, y1, y2) == x1 - MulDiv(y1, x2 - x1, y2 - y1)

\* fig3 line 43: x1 - y1 * (x2 - x1) / (y2 - y1)
fig3_Interpolate(x1, x2, y1, y2) == x1 - MulDiv(y1, x2 - x1, y2 - y1)

\* fig4 find_a_eq(eps, grid) with grid = linspace(lo, hi, n), as <<returned value, path, i>>:
\* path "interp" with i = z[0], or "fallback" with i the argmin index
find_a_eq(eps, lo, hi, n) ==
    Let([j \in 0..(n - 1) |-> torque_balance(Linspace(lo, hi, n, j), eps)], LAMBDA y :
    Let(SignChanges(y, n), LAMBDA z :
        IF z = {}
        THEN Let(ArgMinAbs(y, n), LAMBDA m :
                 << Linspace(lo, hi, n, m), "fallback", m >>)
        ELSE Let(Least(z), LAMBDA i :
             Let(<< Linspace(lo, hi, n, i), Linspace(lo, hi, n, i + 1) >>, LAMBDA x :
             Let(<< y[i], y[i + 1] >>, LAMBDA v :
                 << Interpolate(x[1], x[2], v[1], v[2]), "interp", i >>)))))

\* fig3 find_equilibrium_spin(eps, grid) with grid = linspace(lo, hi, n), as <<returned value, path, i>>:
\* path "interp" with i = z[0], or "fallback" with i the argmin index
find_equilibrium_spin(eps, lo, hi, n) ==
    Let([j \in 0..(n - 1) |-> fig3_torque_balance(Linspace(lo, hi, n, j), eps)], LAMBDA y :
    Let(SignChanges(y, n), LAMBDA z :
        IF z = {}
        THEN Let(ArgMinAbs(y, n), LAMBDA m :
                 << Linspace(lo, hi, n, m), "fallback", m >>)
        ELSE Let(Least(z), LAMBDA i :
             Let(<< Linspace(lo, hi, n, i), Linspace(lo, hi, n, i + 1) >>, LAMBDA x :
             Let(<< y[i], y[i + 1] >>, LAMBDA v :
                 << fig3_Interpolate(x[1], x[2], v[1], v[2]), "interp", i >>)))))

\* the default grids: np.linspace(0.85, 0.9995, 4000) and (.., 2000)
GridLo == 85 * (Scale \div 100)
\* a grid that runs up to a = 1
GridHiOne == Scale
GridHi == 9995 * (Scale \div 10000)
Fig4GridN == 4000
Fig3GridN == 2000

----------------------------------------------------------------------------
(* Cell texts of the CSV files and the conversions applied to them.  A text
   is a sequence of characters; Python's None is the value None. *)

None == << "<None>" >>

\* U+2713 CHECK MARK and U+00D7 MULTIPLICATION SIGN
CheckMark == "U+2713"
Times == "U+00D7"

T1(a) == << a >>
T2(a, b) == << a, b >>
T3(a, b, c) == << a, b, c >>
T4(a, b, c, d) == << a, b, c, d >>
T5(a, b, c, d, e) == << a, b, c, d, e >>

UpperLetters == << "B", "D", "E", "N", "R", "S", "T", "U", "Y" >>
LowerLetters == << "b", "d", "e", "n", "r", "s", "t", "u", "y" >>

\* str.lower() on one character
LowerChar(c) ==
    IF \E i \in 1..Len(UpperLetters) : UpperLetters[i] = c
    THEN LowerLetters[CHOOSE i \in 1..Len(UpperLetters) : UpperLetters[i] = c]
    ELSE c

\* str.lower()
Lower(s) == [i \in 1..Len(s) |-> LowerChar(s[i])]

IsSpace(c) == c = " "

\* str.lstrip(), str.rstrip(), str.strip()
RECURSIVE LStrip(_)
LStrip(s) ==
    IF s = << >> THEN s
    ELSE IF IsSpace(Head(s)) THEN LStrip(Tail(s)) ELSE s

RECURSIVE RStrip(_)
RStrip(s) ==
    IF s = << >> THEN s
    ELSE IF IsSpace(s[Len(s)]) THEN RStrip(SubSeq(s, 1, Len(s) - 1)) ELSE s

Strip(s) == RStrip(LStrip(s))

Digits == << "0", "1", "2", "3", "4", "5", "6", "7", "8", "9" >>

IsDigit(c) == \E i \in 1..10 : Digits[i] = c

DigitVal(c) == (CHOOSE i \in 1..10 : Digits[i] = c) - 1

\* the number of digits of s from position i on
RECURSIVE DigitRun(_, _)
DigitRun(s, i) ==
    IF i <= Len(s) /\ IsDigit(s[i]) THEN 1 + DigitRun(s, i + 1) ELSE 0

\* the number the digits among s[i..j] spell, other characters skipped
RECURSIVE DigitsValue(_, _, _)
DigitsValue(s, i, j) ==
    IF j < i THEN 0
    ELSE IF IsDigit(s[j]) THEN 10 * DigitsValue(s, i, j - 1) + DigitVal(s[j])
    ELSE DigitsValue(s, i, j - 1)

\* A float: NaN, or (-1)^neg * m * 10^e with m not a multiple of 10
\* (m = 0 has e = 0)
NaN == [nan |-> TRUE, neg |-> FALSE, m |-> 0, e |-> 0]

RECURSIVE Normal(_, _, _)
Normal(neg, m, e) ==
    IF m = 0 THEN [nan |-> FALSE, neg |-> neg, m |-> 0, e |-> 0]
    ELSE IF m % 10 = 0 THEN Normal(neg, m \div 10, e + 1)
    ELSE [nan |-> FALSE, neg |-> neg, m |-> m, e |-> e]

\* The grammar of float(str) on the stripped text t: [sign] digits [. digits]
\* [e [sign] digits] with a digit before or after the point.  The positions:
\* p the first digit, n1 the digits before the point, q the first digit after
\* the point, n2 their number, x the end of the mantissa.
FloatOf(t) ==
    LET signed == t # << >> /\ Head(t) \in { "-", "+" }
        p  == IF signed THEN 2 ELSE 1
        n1 == DigitRun(t, p)
        dot == p + n1 <= Len(t) /\ t[p + n1] = "."
        q  == p + n1 + 1
        n2 == IF dot THEN DigitRun(t, q) ELSE 0
        x  == IF dot THEN q + n2 ELSE p + n1
        hasExp == x <= Len(t) /\ t[x] \in { "e", "E" }
        expSigned == x + 1 <= Len(t) /\ t[x + 1] \in { "-", "+" }
        y  == IF expSigned THEN x + 2 ELSE x + 1
        n3 == IF hasExp THEN DigitRun(t, y) ELSE 0
        end == IF hasExp THEN y + n3 ELSE x
        ex == IF hasExp THEN DigitsValue(t, y, y + n3 - 1) ELSE 0
    IN  IF n1 + n2 = 0 \/ (hasExp /\ n3 = 0) \/ end # Len(t) + 1
        THEN NaN
        ELSE Normal(signed /\ Head(t) = "-",
                    DigitsValue(t, p, x - 1),
                    (IF expSigned /\ t[x + 1] = "-" THEN -ex ELSE ex) - n2)

\* fig6 as_float(x), lines 36-40: float(x), NaN on any exception
as_float(x) == IF x = None THEN NaN ELSE FloatOf(Strip(x))

\* fig5 to_float(x), lines 34-38: float(x), np.nan on any exception
to_float(x) == IF x = None THEN NaN ELSE FloatOf(Strip(x))

CheckTrue ==
    { T1("1"), T4("t", "r", "u", "e"), T1("t"), T3("y", "e", "s"), T1("y"),
      T1(CheckMark), T5("c", "h", "e", "c", "k"), T2("o", "k") }

CheckFalse ==
    { T1("0"), T5("f", "a", "l", "s", "e"), T1("f"), T2("n", "o"), T1("n"),
      T1(Times), T1("x") }

\* fig6 as_check(x), lines 57-61
as_check(x) ==
    LET s == Lower(Strip(IF x = None \/ x = << >> THEN << >> ELSE x))
    IN  IF s \in CheckTrue THEN T1(CheckMark)
        ELSE IF s \in CheckFalse THEN << >>
        ELSE s

\* the number of decimal digits of m > 0
RECURSIVE NumDigits(_)
NumDigits(m) == IF m < 10 THEN 1 ELSE 1 + NumDigits(m \div 10)

RECURSIVE Pow10(_)
Pow10(n) == IF n = 0 THEN 1 ELSE 10 * Pow10(n - 1)

\* u < v for the magnitudes of two floats that are not NaN
MagLess(u, v) ==
    IF u.m = 0 \/ v.m = 0 THEN u.m = 0 /\ v.m # 0
    ELSE LET du == NumDigits(u.m)
             dv == NumDigits(v.m)
             d  == IF du > dv THEN du ELSE dv
         IN  IF du + u.e # dv + v.e THEN du + u.e < dv + v.e
             ELSE u.m * Pow10(d - du) < v.m * Pow10(d - dv)

\* u < v for two floats that are not NaN
FloatLess(u, v) ==
    IF u.m = 0 /\ v.m = 0 THEN FALSE
    ELSE IF u.neg /\ ~v.neg THEN TRUE
    ELSE IF ~u.neg /\ v.neg THEN FALSE
    ELSE IF u.neg THEN MagLess(v, u)
    ELSE MagLess(u, v)

\* list.insert of x into the sorted s after every element not greater than x
RECURSIVE Insert(_, _)
Insert(s, x) ==
    IF s = << >> THEN << x >>
    ELSE IF FloatLess(x, Head(s)) THEN << x >> \o s
    ELSE << Head(s) >> \o Insert(Tail(s), x)

\* sorted(s), a stable sort
RECURSIVE Sorted(_)
Sorted(s) ==
    IF s = << >> THEN s
    ELSE Insert(Sorted(SubSeq(s, 1, Len(s) - 1)), s[Len(s)])

\* csv.DictReader: the value a row holds for the column name col.  A key
\* that the header repeats keeps its last field; fields the row lacks are
\* None (restval); col must be in the header.
LastIndex(header, col) ==
    CHOOSE i \in 1..Len(header) :
        header[i] = col /\ \A j \in (i + 1)..Len(header) : header[j] # col

RowGet(header, row, col) ==
    IF LastIndex(header, col) <= Len(row) THEN row[LastIndex(header, col)]
    ELSE None

\* defaults = [0.005, 0.01, 0.02, 0.05, 0.10] (fig3 line 52, fig4 line 28)
LoadDefaults ==
    << Normal(FALSE, 5, -3), Normal(FALSE, 1, -2), Normal(FALSE, 2, -2),
       Normal(FALSE, 5, -2), Normal(FALSE, 10, -2) >>

\* the loop of load_eps_list over the rows: the texts s that are not blank
RECURSIVE EpsTexts(_, _)
EpsTexts(header, rows) ==
    IF rows = << >> THEN << >>
    ELSE LET v == RowGet(header, Head(rows), "epsilon_coup")
             t == Strip(IF v = None THEN << >> ELSE v)
         IN  (IF t = << >> THEN << >> ELSE << t >>)
                 \o EpsTexts(header, Tail(rows))

\* fig4 load_eps_list(path), lines 27-41, as [raised, out]: float(s) raises
\* ValueError on a text that is no number, and only FileNotFoundError is caught
load_eps_list(file) ==
    IF ~file.exists THEN [raised |-> FALSE, out |-> LoadDefaults]
    ELSE IF file.header = << >>
            \/ ~\E i \in 1..Len(file.header) : file.header[i] = "epsilon_coup"
    THEN [raised |-> FALSE, out |-> LoadDefaults]
    ELSE LET ts == EpsTexts(file.header, file.rows)
         IN  IF \E i \in 1..Len(ts) : FloatOf(ts[i]).nan
             THEN [raised |-> TRUE, out |-> << >>]
             ELSE IF ts = << >> THEN [raised |-> FALSE, out |-> LoadDefaults]
             ELSE [raised |-> FALSE,
                   out |-> Sorted([i \in 1..Len(ts) |-> FloatOf(ts[i])])]

\* fig3 load_eps_list(path), lines 47-65: the same code
fig3_load_eps_list(file) ==
    IF ~file.exists THEN [raised |-> FALSE, out |-> LoadDefaults]
    ELSE IF file.header = << >>
            \/ ~\E i \in 1..Len(file.header) : file.header[i] = "epsilon_coup"
    THEN [raised |-> FALSE, out |-> LoadDefaults]
    ELSE LET ts == EpsTexts(file.header, file.rows)
         IN  IF \E i \in 1..Len(ts) : FloatOf(ts[i]).nan
             THEN [raised |-> TRUE, out |-> << >>]
             ELSE IF ts = << >> THEN [raised |-> FALSE, out |-> LoadDefaults]
             ELSE [raised |-> FALSE,
                   out |-> Sorted([i \in 1..Len(ts) |-> FloatOf(ts[i])])]

\* fig6: the columns and their order (lines 86-96)
Preferred ==
    << "name", "z", "MBH_Msun", "a_eq", "L_over_LEdd", "FeKa_lag",
       "MeV_excess", "Polarization", "Notes" >>

\* header names written with blanks around them, and str.strip() of them
PaddedNames == { << " z ", "z" >>, << "Notes ", "Notes" >> }

StripName(h) ==
    IF \E q \in PaddedNames : q[1] = h
    THEN (CHOOSE q \in PaddedNames : q[1] = h)[2]
    ELSE h

\* fig6 load_rows, lines 27-34, for one row of csv.DictReader: a row longer
\* than the header has the key None, and None.strip() raises AttributeError
RowRaises(header, row) == Len(row) > Len(header)

\* the dict of one row: {k.strip(): v.strip() if isinstance(v, str) else v}
RowDict(header, row) ==
    [c \in { StripName(header[i]) : i \in 1..Len(header) } |->
        LET i == CHOOSE i \in 1..Len(header) :
                    /\ StripName(header[i]) = c
                    /\ \A j \in (i + 1)..Len(header) : StripName(header[j]) # c
        IN  IF i <= Len(row) THEN Strip(row[i]) ELSE None]

\* csv.DictReader skips the rows without any field
DataRows(rows) == SelectSeq(rows, LAMBDA r : r # << >>)

\* line 98 with the branch for an empty table left out
present_keys_nonempty(dicts) ==
    SelectSeq(Preferred, LAMBDA c : \E i \in 1..Len(dicts) : c \in DOMAIN dicts[i])

\* present_keys, line 98
present_keys(dicts) ==
    IF dicts # << >>
    THEN SelectSeq(Preferred, LAMBDA c : \E i \in 1..Len(dicts) : c \in DOMAIN dicts[i])
    ELSE Preferred

\* cols, line 99: the keys of the columns
cols_of(dicts) ==
    LET pk == present_keys(dicts)
    IN  SelectSeq(Preferred, LAMBDA c : \E i \in 1..Len(pk) : pk[i] = c)

----------------------------------------------------------------------------
(* fig5: the rows of the candidates file and the values taken from a row *)

\* fig5 load_rows, lines 26-32, for one row of csv.DictReader: the dict
\* comprehension calls v.strip() on the None of a row shorter than the header
\* and k.strip() on the None key of a longer row; both raise AttributeError
fig5_RowRaises(header, row) == Len(row) # Len(header)

\* r.get(key): the cell of the row, None when the column is absent
Get(r, key) == IF key \in DOMAIN r THEN r[key] ELSE None

\* r.get(key, ""): the empty text when the column is absent
GetOrEmpty(r, key) == IF key \in DOMAIN r THEN r[key] ELSE << >>

\* pick_first(*vals), lines 40-48: the first text that is not blank, else ''
RECURSIVE pick_first(_)
pick_first(vals) ==
    IF vals = << >> THEN << >>
    ELSE IF Head(vals) = None THEN pick_first(Tail(vals))
    ELSE IF Strip(Head(vals)) # << >> THEN Strip(Head(vals))
    ELSE pick_first(Tail(vals))

\* val * scale for scale = 10^p
Scaled(val, p) == Normal(val.neg, val.m, val.e + p)

\* the time columns in the order of docstring line 53: lag_ms, lag_s, lag_ks
LagKeysAsDocumented ==
    << << "lag_ms", -3 >>, << "lag_s", 0 >>, << "lag_ks", 3 >> >>

\* line 61: [("lag_s", 1.0), ("lag_ms", 1e-3), ("lag_ks", 1e3)]
LagKeys ==
    << << "lag_s", 0 >>, << "lag_ms", -3 >>, << "lag_ks", 3 >> >>

\* lines 60-65: t_s, the first time column that parses, in seconds
RECURSIVE FirstSeconds(_, _)
FirstSeconds(r, i) ==
    IF i > Len(LagKeys) THEN NaN
    ELSE LET val == to_float(Get(r, LagKeys[i][1]))
         IN  IF ~val.nan THEN Scaled(val, LagKeys[i][2])
             ELSE FirstSeconds(r, i + 1)

\* A lag in units of r_g/c: NaN, the number num (per = << >>), or the
\* quotient num / (RG_OVER_C_S * M) kept exact (per = << M >>)
TauNaN == [nan |-> TRUE, num |-> NaN, per |-> << >>]

\* MBH > 0
Positive(v) == ~v.nan /\ ~v.neg /\ v.m > 0

\* lag_to_tau_rg(r), lines 50-70
lag_to_tau_rg(r) ==
    LET lag_rg == to_float(Get(r, "lag_rg"))
    IN  IF ~lag_rg.nan THEN [nan |-> FALSE, num |-> lag_rg, per |-> << >>]
        ELSE LET t_s == FirstSeconds(r, 1)
                 MBH == to_float(Get(r, "MBH_Msun"))
             IN  IF ~t_s.nan /\ ~MBH.nan /\ Positive(MBH)
                 THEN [nan |-> FALSE, num |-> t_s, per |-> << MBH >>]
                 ELSE TauNaN

\* the labels of y2_value, lines 88 and 94
HardLabel == "hard X/MeV excess (fraction)"
PolLabel == "polarization (fraction)"

\* 1.5 (line 87)
OnePointFive == Normal(FALSE, 15, -1)

\* line 87 with the division by 100 applied to every value
HardFractionAlways100(vv) == Scaled(vv, -2)

\* line 87: v = vv/100.0 if vv > 1.5 else vv
HardFraction(vv) == IF FloatLess(OnePointFive, vv) THEN Scaled(vv, -2) ELSE vv

\* y2_value(r), lines 72-96, as << value, label >>
y2_value(r) ==
    LET hard == GetOrEmpty(r, "hard_x_frac")
        pol == GetOrEmpty(r, "pol_pct")
    IN  IF hard # << >> /\ ~to_float(hard).nan
        THEN << HardFraction(to_float(hard)), HardLabel >>
        ELSE IF pol # << >> /\ ~to_float(pol).nan
        THEN << Scaled(to_float(pol), -2), PolLabel >>
        ELSE << NaN, "" >>


\* fig5 load_rows(path), lines 26-32, as [raised, rows]
fig5_load_rows(header, lines) ==
    LET data == DataRows(lines)
    IN  IF \E i \in 1..Len(data) : fig5_RowRaises(header, data[i])
        THEN [raised |-> TRUE, rows |-> << >>]
        ELSE [raised |-> FALSE,
              rows |-> [i \in 1..Len(data) |-> RowDict(header, data[i])]]

\* lines 113 and 143: pick_first(r.get("name"), r.get("id"), ...)
RowName(r) ==
    pick_first(<< Get(r, "name"), Get(r, "id"), Get(r, "source"),
                  Get(r, "object") >>)

\* lines 128-135: the error bar [[v - lo], [hi - v]], written << lo, hi >>,
\* when both bounds are numbers, else None
Bars(lo, hi) == IF ~lo.nan /\ ~hi.nan THEN << lo, hi >> ELSE None

NoSeriesA ==
    [names |-> << >>, aeqs |-> << >>, tau_rg |-> << >>, xerr |-> << >>,
     yerr |-> << >>]

\* the first loop of main, lines 112-135: names, aeqs, tau_rg, xerr, yerr
RECURSIVE Fig5aSeries(_)
Fig5aSeries(rows) ==
    IF rows = << >> THEN NoSeriesA
    ELSE LET r == Head(rows)
             rest == Fig5aSeries(Tail(rows))
             aeq == to_float(Get(r, "a_eq"))
             tau == lag_to_tau_rg(r)
         IN  IF ~aeq.nan /\ ~tau.nan
             THEN [names |-> << RowName(r) >> \o rest.names,
                   aeqs |-> << aeq >> \o rest.aeqs,
                   tau_rg |-> << tau >> \o rest.tau_rg,
                   xerr |-> << Bars(to_float(Get(r, "a_eq_lo")),
                                    to_float(Get(r, "a_eq_hi"))) >>
                               \o rest.xerr,
                   yerr |-> << Bars(to_float(Get(r, "lag_rg_lo")),
                                    to_float(Get(r, "lag_rg_hi"))) >>
                               \o rest.yerr]
             ELSE rest

\* lines 119-121: y2label, the first label of a row that is not empty
RECURSIVE FirstLabel(_)
FirstLabel(rows) ==
    IF rows = << >> THEN ""
    ELSE IF y2_value(Head(rows))[2] # "" THEN y2_value(Head(rows))[2]
    ELSE FirstLabel(Tail(rows))

NoSeriesB == [names2 |-> << >>, aeqs2 |-> << >>, y2s |-> << >>]

\* the second loop of main, lines 138-145: names2, aeqs2, y2s
RECURSIVE Fig5bSeries(_)
Fig5bSeries(rows) ==
    IF rows = << >> THEN NoSeriesB
    ELSE LET r == Head(rows)
             rest == Fig5bSeries(Tail(rows))
             aeq == to_float(Get(r, "a_eq"))
             yy == y2_value(r)[1]
         IN  IF ~aeq.nan /\ ~yy.nan
             THEN [names2 |-> << RowName(r) >> \o rest.names2,
                   aeqs2 |-> << aeq >> \o rest.aeqs2,
                   y2s |-> << yy >> \o rest.y2s]
             ELSE rest

\* a number as a lag
PlainTau(v) == [nan |-> FALSE, num |-> v, per |-> << >>]

\* line 166: ax.plot([0.9, 0.95], [30, 10], ...)
DemoA ==
    << [x |-> Normal(FALSE, 9, -1), y |-> PlainTau(Normal(FALSE, 30, 0)),
        xerr |-> None, yerr |-> None, demo |-> TRUE],
       [x |-> Normal(FALSE, 95, -2), y |-> PlainTau(Normal(FALSE, 10, 0)),
        xerr |-> None, yerr |-> None, demo |-> TRUE] >>

\* lines 185-186: ax.plot([0.9, 0.96], [0.15, 0.30], ...)
DemoB ==
    << [x |-> Normal(FALSE, 9, -1), y |-> Normal(FALSE, 15, -2), demo |-> TRUE],
       [x |-> Normal(FALSE, 96, -2), y |-> Normal(FALSE, 30, -2), demo |-> TRUE] >>

\* lines 151-159: one errorbar or plot call for each point of the series
CsvPointsA(xs, ys, xe, ye) ==
    [i \in 1..Len(xs) |->
        [x |-> xs[i], y |-> ys[i], xerr |-> xe[i], yerr |-> ye[i],
         demo |-> FALSE]]

\* lines 149-166 with the demo points drawn whatever the series holds
PointsAWithDemo(xs, ys, xe, ye) == CsvPointsA(xs, ys, xe, ye) \o DemoA

\* lines 149-166: the series if aeqs is not empty, else the demo points
PointsA(xs, ys, xe, ye) ==
    IF xs # << >> THEN CsvPointsA(xs, ys, xe, ye) ELSE DemoA

\* lines 179-186: the series if aeqs2 is not empty, else the demo points
PointsB(xs, ys) ==
    IF xs # << >>
    THEN [i \in 1..Len(xs) |-> [x |-> xs[i], y |-> ys[i], demo |-> FALSE]]
    ELSE DemoB

----------------------------------------------------------------------------
(* The output files.  A path is the sequence of its components, the file
   name last; << >> is the directory the script runs in, which os.path
   writes '' and pathlib '.'. *)

\* os.path.split(path): << base, name >>
split(path) == << SubSeq(path, 1, Len(path) - 1), path[Len(path)] >>

\* os.path.join(base, name); os.path.join('', name) is name
join(base, name) == Append(base, name)

\* a directory and the directories above it
Prefixes(d) == { SubSeq(d, 1, n) : n \in 0..Len(d) }

\* os.makedirs(base) without exist_ok, as [raised, dirs]: FileExistsError
\* when base exists
makedirs_new(dirs, base) ==
    IF base = << >> \/ base \in dirs THEN [raised |-> TRUE, dirs |-> dirs]
    ELSE [raised |-> FALSE, dirs |-> dirs \cup Prefixes(base)]

\* os.makedirs(base, exist_ok=True), as [raised, dirs]: os.makedirs('')
\* raises FileNotFoundError
makedirs(dirs, base) ==
    IF base = << >> THEN [raised |-> TRUE, dirs |-> dirs]
    ELSE [raised |-> FALSE, dirs |-> dirs \cup Prefixes(base)]

\* ensure_out(path, polished) of fig3 (lines 68-77), the same code in fig4
\* (43-48), fig5 (19-24), fig6 (20-25) and inline in fig7 (67-71), as
\* [raised, dirs, ret]
ensure_out(dirs, path, polished) ==
    LET base == IF polished THEN join(split(path)[1], "polished")
                ELSE split(path)[1]
        made == makedirs(dirs, base)
    IN  [raised |-> made.raised, dirs |-> made.dirs,
         ret |-> join(base, split(path)[2])]

\* Path.mkdir(parents=True, exist_ok=True) of a directory d
mkdir_parents(dirs, d) == dirs \cup Prefixes(d)

\* Path.with_suffix(".pdf") of the file names written through pathlib
with_suffix_pdf(name) ==
    CASE name = "fig2a_spin_evolution" -> "fig2a_spin_evolution.pdf"
      [] name = "fig10a_Reff100" -> "fig10a_Reff100.pdf"
      [] name = "fig10b_Reff1000" -> "fig10b_Reff1000.pdf"
      [] OTHER -> name

\* Path(__file__).resolve().parents[1], the directory above the scripts
Root == << "<root>" >>

(* What a script does for its output files: how, "ensure_out" (os.makedirs of
   the directory, after the polished step), "mkdir" (Path.mkdir of the
   parent) or "none"; outs, the default paths; args, whether the paths and
   --polished are arguments. *)
fig3_script ==
    [name |-> "fig3", how |-> "ensure_out", args |-> TRUE,
     outs |-> << << "figures", "Fig3a.pdf" >>, << "figures", "Fig3b.pdf" >> >>]
fig4_script ==
    [name |-> "fig4", how |-> "ensure_out", args |-> TRUE,
     outs |-> << << "figures", "Fig4a.pdf" >>, << "figures", "Fig4b.pdf" >> >>]
fig5_script ==
    [name |-> "fig5", how |-> "ensure_out", args |-> TRUE,
     outs |-> << << "figures", "Fig5a.pdf" >>, << "figures", "Fig5b.pdf" >> >>]
fig6_script ==
    [name |-> "fig6", how |-> "ensure_out", args |-> TRUE,
     outs |-> << << "figures", "Fig6.pdf" >> >>]
fig7_script ==
    [name |-> "fig7", how |-> "ensure_out", args |-> TRUE,
     outs |-> << << "figures", "Fig_Onset.pdf" >> >>]
Fig2a_script ==
    [name |-> "Fig2a", how |-> "mkdir", args |-> FALSE,
     outs |-> << Root \o << "figures", with_suffix_pdf("fig2a_spin_evolution") >> >>]
fig10_script ==
    [name |-> "fig10", how |-> "mkdir", args |-> FALSE,
     outs |-> << Root \o << "figures", with_suffix_pdf("fig10a_Reff100") >>,
                 Root \o << "figures", with_suffix_pdf("fig10b_Reff1000") >> >>]
fig10_V2_script ==
    [name |-> "fig10_V2", how |-> "mkdir", args |-> FALSE,
     outs |-> << Root \o << "figures", with_suffix_pdf("fig10a_Reff100") >>,
                 Root \o << "figures", with_suffix_pdf("fig10b_Reff1000") >> >>]
info_graphic_p1_script ==
    [name |-> "info_graphic_p1", how |-> "none", args |-> FALSE,
     outs |-> << << "figures", "sspe_infographic_p1_conundrum.pdf" >> >>]
info_graphic_p2_script ==
    [name |-> "info_graphic_p2", how |-> "mkdir", args |-> FALSE,
     outs |-> << << "figures", "sspe_infographic_p2_flowchart.pdf" >> >>]
info_graphic_p3_script ==
    [name |-> "info_graphic_p3", how |-> "mkdir", args |-> FALSE,
     outs |-> << << "figures", "sspe_infographic_p3_hooks.pdf" >> >>]
fig_equatorial_script ==
    [name |-> "fig_equatorial_trigger_schematic", how |-> "mkdir",
     args |-> FALSE,
     outs |-> << << "figures", "fig_equatorial_trigger_schematic.pdf" >> >>]

Scripts ==
    { fig3_script, fig4_script, fig5_script, fig6_script, fig7_script,
      Fig2a_script, fig10_script, fig10_V2_script, info_graphic_p1_script,
      info_graphic_p2_script, info_graphic_p3_script, fig_equatorial_script }

----------------------------------------------------------------------------
(* fig10 and fig10_V2: the anchor of the l = 30 label.  The guide line has
   x = np.linspace(0.02, 0.30, 400) and y = k * x with k = 300.0 / Reff, so
   x[j] = (798 + 28 j) / 39900 and y[j] = (798 + 28 j) / (133 Reff); the
   comparisons of y with the frame are made on these fractions, which are
   kept exact. *)

\* len(x), line 74
LabelPoints == 400

\* LABEL_POS = 0.40 in tenths, line 13
LabelPosTenths == 4

\* y[j] as << numerator, denominator >>
GuideY(Reff, j) == << 798 + 28 * j, 133 * Reff >>

\* x[j] as << numerator, denominator >>
GuideX(j) == << 798 + 28 * j, 39900 >>

\* u < c / 100 and u > c / 100 for a fraction u with a positive denominator
FracBelow(u, c) == 100 * u[1] < c * u[2]
FracAbove(u, c) == 100 * u[1] > c * u[2]

\* lines 26-29: the indices with ymin + margin < y < ymax - margin, for
\* ymin, ymax = 0.01, 0.30 and margin = 0.02
Inside(Reff) ==
    { j \in 0..(LabelPoints - 1) :
        FracAbove(GuideY(Reff, j), 3) /\ FracBelow(GuideY(Reff, j), 28) }

\* idxs[m] for the sorted indices idxs of a set
Nth(S, m) == CHOOSE j \in S : Cardinality({ i \in S : i < j }) = m

\* _place_label(ax, x, y, k) of fig10, lines 23-46: the index i of the anchor
place_label(Reff) ==
    Let(Inside(Reff), LAMBDA idxs :
        IF idxs = {} THEN LabelPoints \div 2
        ELSE Nth(idxs, (LabelPosTenths * (Cardinality(idxs) - 1)) \div 10))

\* _place_l30_label(ax, x, y, k) of fig10_V2, lines 40-81, with
\* ax.get_ylim() = (0.01, 0.30) as set on line 114
place_l30_label(Reff) ==
    Let(Inside(Reff), LAMBDA idxs :
        IF idxs = {} THEN LabelPoints \div 2
        ELSE Nth(idxs, (LabelPosTenths * (Cardinality(idxs) - 1)) \div 10))

----------------------------------------------------------------------------
(* fig7: onset_curve.  The spins a, a_th and a_right are counted in units
   of 1e-10 from a common origin, so that the guard 1e-9 of line 24 is 10
   units; s and the result are fractions << numerator, denominator >>, kept
   exact; the exponent n is a whole number. *)

\* 1e-9 (line 24) in units of 1e-10
OnsetTiny == 10

RECURSIVE IntPow(_, _)
IntPow(b, n) == IF n = 0 THEN 1 ELSE b * IntPow(b, n - 1)

\* line 24: denom = max(a_right - a_th, 1e-9)
OnsetDenom(a_th, a_right) ==
    IF a_right - a_th > OnsetTiny THEN a_right - a_th ELSE OnsetTiny

\* line 25: s = np.clip((a - a_th) / denom, 0.0, 1.0) for one element of a
OnsetS(a, a_th, a_right) ==
    LET denom == OnsetDenom(a_th, a_right)
    IN  IF a - a_th < 0 THEN << 0, denom >>
        ELSE IF a - a_th > denom THEN << denom, denom >>
        ELSE << a - a_th, denom >>

\* onset_curve(a, a_th, floor, amp, n, a_right), lines 17-26, for the array
\* a: floor + amp * s ** n for each element
onset_curve(a, a_th, floor, amp, n, a_right) ==
    [j \in 1..Len(a) |->
        LET s == OnsetS(a[j], a_th, a_right)
        IN  << floor * IntPow(s[2], n) + amp * IntPow(s[1], n),
               IntPow(s[2], n) >>]

----------------------------------------------------------------------------
(* fig4: time_to_equilibrium and the loop of main that calls it *)

\* the defaults of time_to_equilibrium: a0=0.86, dt=0.5, tol=1e-4,
\* max_steps=200000; the clamp bound 0.9999
DefaultA0 == 86 * (Scale \div 100)
Dt == Scale \div 2
Tol == Scale \div 10000
SmallMaxSteps == 2 * 100
DefaultMaxSteps == 200000
ClampHi == 9999 * (Scale \div 10000)

\* load_eps_list's defaults [0.005, 0.01, 0.02, 0.05, 0.10]
EpsDefaults ==
    << 5 * (Scale \div 1000), Scale \div 100, 2 * (Scale \div 100),
       5 * (Scale \div 100), 10 * (Scale \div 100) >>

VARIABLES
    pc,         \* time_to_equilibrium: "idle", "call", "loop", "returned", "raised"
    eps,        \* its argument eps
    a0,         \* its argument a0
    max_steps,  \* its argument max_steps
    a_eq,       \* a_eq = find_a_eq(eps)
    path,       \* the branch find_a_eq took: "interp" or "fallback"
    a,          \* a (its real part, when a0 > 1 made it complex)
    t,          \* t as <<whole part, fraction in units of 1/Scale>>
    k,          \* the number of loop iterations begun (updates done)
    upd,        \* a as the last update left it, before the clamp: real part
    updIm,      \* and imaginary part
    ret_nan,    \* the returned time is NaN
    ret_t,      \* the returned time, when it is not NaN
    ret_aeq,    \* the returned equilibrium value
    mpc,        \* fig4 main: "none", "loop", "plotted"
    eps_list,   \* main's eps_list
    idx,        \* the position of main's loop in eps_list (1-based)
    taus,       \* main's taus: a sequence of [nan, t]
    aeqs        \* main's aeqs

VARIABLES
    rpc,        \* a root finder called on its own: "idle", "done"
    r_fn,       \* which: "find_a_eq" (fig4) or "find_equilibrium_spin" (fig3)
    r_eps,      \* its argument eps
    r_grid,     \* its argument grid = linspace(lo, hi, n), as [lo, hi, n]
    r_res       \* what it returned, as <<value, path, i>>

VARIABLES
    cpc,        \* a conversion applied to one cell: "idle", "done"
    c_fn,       \* which: "as_check", "as_float", "to_float"
    c_in,       \* the cell: a text or None
    c_out       \* the result

VARIABLES
    tpc,        \* fig6 main: "idle", "loaded", "rendered", "raised"
    t_header,   \* the header of the CSV file: column names
    t_rows,     \* its data rows: sequences of cell texts
    t_dicts,    \* rows = load_rows(args.csv)
    t_cols      \* the keys of cols

VARIABLES
    lpc,        \* load_eps_list: "idle", "returned", "raised"
    l_fn,       \* of which script: "fig3", "fig4"
    l_file,     \* the parameter file: [exists, header, rows]
    l_out       \* the list returned

VARIABLES
    w_pc,       \* a fig5 function applied to one row: "idle", "done"
    w_fn,       \* which: "lag_to_tau_rg", "y2_value"
    w_row,      \* the row r: a dict of stripped cell texts
    w_out       \* the result

VARIABLES
    f5_pc,      \* fig5 main: "idle", "start", "loaded", "collected",
                \* "fig5a", "fig5b", "raised"
    f5_header,  \* the header of the candidates file
    f5_lines,   \* its data rows: sequences of cell texts
    f5_rows,    \* rows = load_rows(args.csv)
    f5_names,   \* names, aeqs, tau_rg, xerr, yerr: the Fig5a series
    f5_aeqs,
    f5_tau_rg,
    f5_xerr,    \* None, or << lo, hi >> for [[aeq - lo], [hi - aeq]]
    f5_yerr,    \* None, or << lo, hi >> for [[tau - lo], [hi - tau]]
    f5_names2,  \* names2, aeqs2, y2s: the Fig5b series
    f5_aeqs2,
    f5_y2s,
    f5_y2label, \* y2label
    f5_plot_a,  \* the points drawn in Fig5a, in drawing order
    f5_plot_b   \* the points drawn in Fig5b, in drawing order

VARIABLES
    o_pc,       \* a script and its output files: "idle", "run" (before the
                \* directory of output o_i is made), "dir" (before savefig),
                \* "done", "raised"
    o_script,   \* the script, one of Scripts
    o_outs,     \* the output paths asked for (--out, --outa, --outb)
    o_polished, \* --polished
    o_i,        \* the output being written
    o_path,     \* the path handed to savefig
    o_dirs,     \* the directories that exist
    o_files,    \* the files that exist
    o_written,  \* the paths this run has written, in order
    o_first,    \* the paths the first run wrote
    o_run       \* 1 in the first run, 2 in the second

VARIABLES
    q_pc,       \* a numeric helper of fig10 or fig7 called on its own:
                \* "idle", "done"
    q_fn,       \* which: "_place_label", "_place_l30_label", "onset_curve"
    q_in,       \* its arguments
    q_out       \* its result

tteVars == << pc, eps, a0, max_steps, a_eq, path, a, t, k, upd, updIm,
              ret_nan, ret_t, ret_aeq >>
fig4Vars == << mpc, eps_list, idx, taus, aeqs >>
rootVars == << rpc, r_fn, r_eps, r_grid, r_res >>
cellVars == << cpc, c_fn, c_in, c_out >>
fig6Vars == << tpc, t_header, t_rows, t_dicts, t_cols >>
epsVars == << lpc, l_fn, l_file, l_out >>
rowVars == << w_pc, w_fn, w_row, w_out >>
fig5Vars == << f5_pc, f5_header, f5_lines, f5_rows, f5_names, f5_aeqs,
               f5_tau_rg, f5_xerr, f5_yerr, f5_names2, f5_aeqs2, f5_y2s,
               f5_y2label, f5_plot_a, f5_plot_b >>

\* the scripts other than fig3, fig4 and fig6
outVars == << o_pc, o_script, o_outs, o_polished, o_i, o_path, o_dirs,
             o_files, o_written, o_first, o_run >>
callVars == << q_pc, q_fn, q_in, q_out >>
figVars == << rowVars, fig5Vars, outVars, callVars >>

\* the parts of fig3, fig4 and fig6
coreVars == << tteVars, fig4Vars, rootVars, cellVars, fig6Vars, epsVars >>

vars == << coreVars, figVars >>

\* what the actions of each part leave alone
outsideFig4 == << rootVars, cellVars, fig6Vars, epsVars, figVars >>
outsideRoot == << tteVars, fig4Vars, cellVars, fig6Vars, epsVars, figVars >>
outsideCell == << tteVars, fig4Vars, rootVars, fig6Vars, epsVars, figVars >>
outsideFig6 == << tteVars, fig4Vars, rootVars, cellVars, epsVars, figVars >>
outsideEps == << tteVars, fig4Vars, rootVars, cellVars, fig6Vars, figVars >>
outsideRow == << coreVars, fig5Vars, outVars, callVars >>
outsideFig5 == << coreVars, rowVars, outVars, callVars >>
outsideOut == << coreVars, rowVars, fig5Vars, callVars >>
outsideCall == << coreVars, rowVars, fig5Vars, outVars >>

\* t + d for a wide t and 0 <= d
AddWide(w, d) ==
    LET lo == w[2] + d
    IN  << w[1] + (lo \div Scale), lo % Scale >>

\* abs(z) < tol for the complex z = re + i*im
AbsLt(re, im, tol) ==
    /\ Abs(re) < tol
    /\ Abs(im) < tol
    /\ re * re + im * im < tol * tol

\* entry of time_to_equilibrium(e, a0=a0v, max_steps=ms), lines 65-67:
\* a_eq = find_a_eq(eps), of which r is the value; a = a0; t = 0.0
TteStart(e, a0v, ms, r) ==
    /\ pc' = "loop"
    /\ eps' = e
    /\ a0' = a0v
    /\ max_steps' = ms
    /\ a_eq' = r[1]
    /\ path' = r[2]
    /\ a' = a0v
    /\ t' = << 0, 0 >>
    /\ k' = 0
    /\ upd' = a0v
    /\ updIm' = 0
    /\ UNCHANGED << ret_nan, ret_t, ret_aeq >>

\* lines 74-75 with the bound of line 75 left out
ClampLowOnly(x) == IF x < 0 THEN 0 ELSE x

\* if a < 0.0: a = 0.0; if a > 0.9999: a = 0.9999 (lines 74-75)
Clamp(x) == IF x < 0 THEN 0 ELSE IF x > ClampHi THEN ClampHi ELSE x

\* one iteration of the for loop, lines 68-75
TteStep ==
    /\ pc = "loop"
    /\ k < max_steps
    /\ \E re \in { a + MulS(torque_balance(a, eps), Dt) },
          im \in { MulS(torque_balance_im(a, eps), Dt) } :
           /\ upd' = re
           /\ updIm' = im
           /\ t' = AddWide(t, Dt)
           /\ k' = k + 1
           /\ IF AbsLt(re - a_eq, im, Tol)
              THEN /\ pc' = "returned"
                   /\ ret_nan' = FALSE
                   /\ ret_t' = AddWide(t, Dt)
                   /\ ret_aeq' = a_eq
                   /\ a' = re
              ELSE IF a > Scale
              THEN \* a is complex: a < 0.0 raises TypeError
                   /\ pc' = "raised"
                   /\ a' = re
                   /\ UNCHANGED << ret_nan, ret_t, ret_aeq >>
              ELSE /\ pc' = "loop"
                   /\ a' = Clamp(re)
                   /\ UNCHANGED << ret_nan, ret_t, ret_aeq >>
    /\ UNCHANGED << eps, a0, max_steps, a_eq, path >>
    /\ UNCHANGED << fig4Vars, outsideFig4 >>

\* the loop is exhausted: return np.nan, a_eq (line 76)
TteExhaust ==
    /\ pc = "loop"
    /\ k = max_steps
    /\ pc' = "returned"
    /\ ret_nan' = TRUE
    /\ ret_aeq' = a_eq
    /\ UNCHANGED << eps, a0, max_steps, a_eq, path, a, t, k, upd, updIm, ret_t >>
    /\ UNCHANGED << fig4Vars, outsideFig4 >>

TteIdle ==
    /\ pc = "idle" /\ eps = 0 /\ a0 = 0 /\ max_steps = 0 /\ a_eq = 0
    /\ path = "none" /\ a = 0 /\ t = << 0, 0 >> /\ k = 0 /\ upd = 0
    /\ updIm = 0 /\ ret_nan = FALSE /\ ret_t = << 0, 0 >> /\ ret_aeq = 0

Fig4Idle ==
    /\ mpc = "none" /\ eps_list = << >> /\ idx = 0 /\ taus = << >>
    /\ aeqs = << >>

RootIdle ==
    /\ rpc = "idle" /\ r_fn = "none" /\ r_eps = 0
    /\ r_grid = [lo |-> 0, hi |-> 0, n |-> 0] /\ r_res = << 0, "none", 0 >>

CellIdle == cpc = "idle" /\ c_fn = "none" /\ c_in = << >> /\ c_out = << >>

Fig6Idle ==
    /\ tpc = "idle" /\ t_header = << >> /\ t_rows = << >> /\ t_dicts = << >>
    /\ t_cols = << >>

NoFile == [exists |-> FALSE, header |-> << >>, rows |-> << >>]

EpsIdle == lpc = "idle" /\ l_fn = "none" /\ l_file = NoFile /\ l_out = << >>

CsvIdle == CellIdle /\ Fig6Idle /\ EpsIdle

RowIdle == w_pc = "idle" /\ w_fn = "none" /\ w_row = << >> /\ w_out = << >>

Fig5Idle ==
    /\ f5_pc = "idle" /\ f5_header = << >> /\ f5_lines = << >>
    /\ f5_rows = << >> /\ f5_names = << >> /\ f5_aeqs = << >>
    /\ f5_tau_rg = << >> /\ f5_xerr = << >> /\ f5_yerr = << >>
    /\ f5_names2 = << >> /\ f5_aeqs2 = << >> /\ f5_y2s = << >>
    /\ f5_y2label = "" /\ f5_plot_a = << >> /\ f5_plot_b = << >>

\* nothing of the other scripts has run
OutIdle ==
    /\ o_pc = "idle" /\ o_script = "none" /\ o_outs = << >>
    /\ o_polished = FALSE /\ o_i = 0 /\ o_path = << >> /\ o_dirs = {}
    /\ o_files = {} /\ o_written = << >> /\ o_first = << >> /\ o_run = 0

CallIdle == q_pc = "idle" /\ q_fn = "none" /\ q_in = << >> /\ q_out = << >>

FigIdle == RowIdle /\ Fig5Idle /\ OutIdle /\ CallIdle

CoreIdle == TteIdle /\ Fig4Idle /\ RootIdle /\ CsvIdle

(* time_to_equilibrium called with any arguments *)

MaxSteps == 6

TteEps ==
    { -2 * Scale, 0, Scale \div 100, 7 * (Scale \div 100), Scale \div 10,
      5 * Scale }

TteA0 ==
    { -(Scale \div 2), 0, DefaultA0, 95 * (Scale \div 100), ClampHi, Scale,
      3 * (Scale \div 2) }

InitTTE == TteIdle /\ Fig4Idle /\ RootIdle /\ CsvIdle /\ FigIdle

\* a call time_to_equilibrium(e, a0=a0v, max_steps=ms)
TteCall ==
    /\ pc = "idle"
    /\ \E e \in TteEps :
       \E r \in { find_a_eq(e, GridLo, GridHi, Fig4GridN) } :
       \E a0v \in TteA0, ms \in 0..MaxSteps :
           TteStart(e, a0v, ms, r)
    /\ UNCHANGED << fig4Vars, outsideFig4 >>

NextTTE == TteCall \/ TteStep \/ TteExhaust

SpecTTE == InitTTE /\ [][NextTTE]_vars

\* k updates of dt each make t = k * dt
TimeOf(n) == << (n * Dt) \div Scale, (n * Dt) % Scale >>

\* C1: time_to_equilibrium repeats the update and returns (t, a_eq) at the
\* first update after which |a - a_eq| < tol, tested before the clamp; if no
\* update among the first max_steps passes the test it stops after exactly
\* max_steps updates and returns (NaN, a_eq); it never does more than
\* max_steps updates; and this for every eps and a0, so that every call ends
\* in one of the two returns.
C1_LoopContract ==
    /\ k <= max_steps
    /\ (pc = "loop" /\ k > 0) => ~AbsLt(upd - a_eq, updIm, Tol)
    /\ (pc = "returned" /\ ~ret_nan) =>
           /\ k >= 1
           /\ AbsLt(upd - a_eq, updIm, Tol)
           /\ ret_t = TimeOf(k)
           /\ ret_aeq = a_eq
    /\ (pc = "returned" /\ ret_nan) =>
           /\ k = max_steps
           /\ k > 0 => ~AbsLt(upd - a_eq, updIm, Tol)
           /\ ret_aeq = a_eq
    /\ pc # "raised"

----------------------------------------------------------------------------
(* fig4 main: the loop over eps_list, lines 92-101 *)

\* lists load_eps_list can return: the defaults, and sorted lists of a file
Fig4Lists ==
    { EpsDefaults,
      << 1200, 10000, 100000 >>,
      << 3 * (Scale \div 100), 7 * (Scale \div 100), 797 * (Scale \div 10000) >>,
      << 1000, 8 * (Scale \div 100) >>,
      << Scale \div 100, Scale \div 100 >> }

InitFig4 ==
    /\ TteIdle
    /\ RootIdle
    /\ CsvIdle
    /\ FigIdle
    /\ mpc = "loop"
    /\ eps_list \in Fig4Lists
    /\ idx = 1
    /\ taus = << >>
    /\ aeqs = << >>

\* tau, aeq = time_to_equilibrium(eps): the call (line 98)
Fig4Call ==
    /\ mpc = "loop"
    /\ pc = "idle"
    /\ idx <= Len(eps_list)
    /\ \E r \in { find_a_eq(eps_list[idx], GridLo, GridHi, Fig4GridN) } :
           TteStart(eps_list[idx], DefaultA0, DefaultMaxSteps, r)
    /\ UNCHANGED << fig4Vars, outsideFig4 >>

\* taus.append(tau); aeqs.append(aeq) (lines 99-100)
Fig4Append ==
    /\ mpc = "loop"
    /\ pc = "returned"
    /\ taus' = Append(taus, [nan |-> ret_nan, t |-> ret_t])
    /\ aeqs' = Append(aeqs, ret_aeq)
    /\ idx' = idx + 1
    /\ pc' = "idle"
    /\ UNCHANGED << eps, a0, max_steps, a_eq, path, a, t, k, upd, updIm,
                    ret_nan, ret_t, ret_aeq, mpc, eps_list >>
    /\ UNCHANGED outsideFig4

\* the loop is over: the arrays are plotted (lines 102-143)
Fig4Plot ==
    /\ mpc = "loop"
    /\ pc = "idle"
    /\ idx > Len(eps_list)
    /\ mpc' = "plotted"
    /\ UNCHANGED << tteVars, eps_list, idx, taus, aeqs >>
    /\ UNCHANGED outsideFig4

NextFig4 == Fig4Call \/ TteStep \/ TteExhaust \/ Fig4Append \/ Fig4Plot

SpecFig4 == InitFig4 /\ [][NextFig4]_vars

\* C2: for every eps with a sign change of torque_balance on the grid,
\* time_to_equilibrium(eps) with the default a0, dt, tol and max_steps
\* returns a finite time: the step budget is never exhausted.
C2_FiniteTime ==
    (path = "interp" /\ a0 = DefaultA0 /\ max_steps = DefaultMaxSteps) =>
        /\ pc = "loop" => k < max_steps
        /\ pc = "returned" => ~ret_nan

\* a call with a sign change on the grid has returned after many updates
C2_Witness ==
    /\ pc = "returned"
    /\ path = "interp"
    /\ a0 = DefaultA0
    /\ max_steps = DefaultMaxSteps
    /\ ~ret_nan
    /\ k > 100

\* C3: for every eps with a sign change on the grid, the equilibrium value
\* time_to_equilibrium(eps) returns, fig4's find_a_eq on 4000 points, is
\* within tol = 1e-4 of fig3's find_equilibrium_spin(eps) on 2000 points.
C3_FindersAgree ==
    (pc = "returned" /\ path = "interp") =>
        Abs(ret_aeq - find_equilibrium_spin(eps, GridLo, GridHi, Fig3GridN)[1]) < Tol

\* a call with a sign change on the grid has returned its equilibrium value
C3_Witness ==
    /\ pc = "returned"
    /\ path = "interp"
    /\ ret_aeq > GridLo
    /\ ret_aeq < GridHi
    /\ find_equilibrium_spin(eps, GridLo, GridHi, Fig3GridN)[2] = "interp"

----------------------------------------------------------------------------
(* The two root finders called with any eps and any grid within [0, 1] *)

MaxGridN == 5

RootEnds == { 0, Scale \div 2, GridLo, GridHi, Scale }

RootGrids ==
    { g \in [lo : RootEnds, hi : RootEnds, n : 1..MaxGridN] : g.lo < g.hi }

RootEps ==
    { -2 * Scale, 0, 1000, Scale \div 1000, Scale \div 100, 7 * (Scale \div 100),
      Scale \div 10, Scale \div 2, 5 * Scale, 20 * Scale }

Fig4Grid == [lo |-> GridLo, hi |-> GridHi, n |-> Fig4GridN]
Fig3Grid == [lo |-> GridLo, hi |-> GridHi, n |-> Fig3GridN]

InitRoot == TteIdle /\ Fig4Idle /\ RootIdle /\ CsvIdle /\ FigIdle

\* find_a_eq(e, grid=g)
RootFind4 ==
    /\ rpc = "idle"
    /\ \E e \in RootEps, g \in RootGrids \cup { Fig4Grid } :
           /\ r_fn' = "find_a_eq"
           /\ r_eps' = e
           /\ r_grid' = g
           /\ r_res' = find_a_eq(e, g.lo, g.hi, g.n)
    /\ rpc' = "done"
    /\ UNCHANGED outsideRoot

\* find_equilibrium_spin(e, grid=g)
RootFind3 ==
    /\ rpc = "idle"
    /\ \E e \in RootEps, g \in RootGrids \cup { Fig3Grid } :
           /\ r_fn' = "find_equilibrium_spin"
           /\ r_eps' = e
           /\ r_grid' = g
           /\ r_res' = find_equilibrium_spin(e, g.lo, g.hi, g.n)
    /\ rpc' = "done"
    /\ UNCHANGED outsideRoot

NextRoot == RootFind4 \/ RootFind3

SpecRoot == InitRoot /\ [][NextRoot]_vars

\* grid[i] of the call
RootGridAt(i) == Linspace(r_grid.lo, r_grid.hi, r_grid.n, i)

\* y = torque_balance(grid, eps) of the call
RootSamples ==
    [j \in 0..(r_grid.n - 1) |->
        IF r_fn = "find_a_eq" THEN torque_balance(RootGridAt(j), r_eps)
        ELSE fig3_torque_balance(RootGridAt(j), r_eps)]

\* C5: for both finders, whenever the samples have exactly one sign change,
\* between grid[i] and grid[i+1], the returned crossing x satisfies
\* grid[i] <= x <= grid[i+1].
C5_CrossingInBracket ==
    rpc = "done" =>
        \A y \in { RootSamples } :
        \A z \in { SignChanges(y, r_grid.n) } :
            Cardinality(z) = 1 =>
                \A i \in z : /\ RootGridAt(i) <= r_res[1]
                             /\ r_res[1] <= RootGridAt(i + 1)

\* an interpolated crossing strictly inside its interval of a grid of several
C5_Witness ==
    /\ rpc = "done"
    /\ r_res[2] = "interp"
    /\ r_grid.n > 2
    /\ RootGridAt(r_res[3]) < r_res[1]
    /\ r_res[1] < RootGridAt(r_res[3] + 1)

\* C6: for both finders, whenever no two adjacent samples differ in sign, the
\* value returned is a grid point at which |y| is minimal over the grid.
C6_FallbackIsArgmin ==
    rpc = "done" =>
        \A y \in { RootSamples } :
            SignChanges(y, r_grid.n) = {} =>
                \E m \in 0..(r_grid.n - 1) :
                    /\ r_res[1] = RootGridAt(m)
                    /\ \A v \in { Abs(y[m]) } :
                           \A j \in 0..(r_grid.n - 1) : v <= Abs(y[j])

\* the fallback chose a grid point that is not the first of the grid
C6_Witness ==
    /\ rpc = "done"
    /\ r_res[2] = "fallback"
    /\ r_grid.n > 2
    /\ r_res[3] > 0
    /\ r_res[1] = RootGridAt(r_res[3])

----------------------------------------------------------------------------
(* The conversions of one cell: as_check, as_float (fig6), to_float (fig5) *)

MaxCellLen == 3

CellChars == { " ", "0", "1", ".", "-", "y", "N", "o" }

\* the texts over a set of characters, up to a length
Texts(chars, n) == UNION { [1..m -> chars] : m \in 0..n }

CellWords ==
    { T4("t", "r", "u", "e"), T5("f", "a", "l", "s", "e"), T3("y", "e", "s"),
      T3("Y", "E", "S"), T4("T", "r", "u", "e"), T1("t"), T1("f"), T1("n"),
      T1("x"), T2("o", "k"), T5("c", "h", "e", "c", "k"), T1(CheckMark),
      T1(Times), T3("T", "B", "D"), T3("t", "b", "d"), T4("<", "0", ".", "5"),
      T3("1", "e", "1"), T4("1", "e", "-", "1"), T2("1", "e"), T2("e", "1"),
      T3("1", "E", "1"), T2("+", "1"), T3("2", ".", "5") }

CellInputs == Texts(CellChars, MaxCellLen) \cup CellWords \cup { None }

InitCell == TteIdle /\ Fig4Idle /\ RootIdle /\ CsvIdle /\ FigIdle

CellAsCheck ==
    /\ cpc = "idle"
    /\ \E x \in CellInputs :
           /\ c_fn' = "as_check"
           /\ c_in' = x
           /\ c_out' = as_check(x)
    /\ cpc' = "done"
    /\ UNCHANGED outsideCell

CellAsFloat ==
    /\ cpc = "idle"
    /\ \E x \in CellInputs :
           /\ c_fn' = "as_float"
           /\ c_in' = x
           /\ c_out' = as_float(x)
    /\ cpc' = "done"
    /\ UNCHANGED outsideCell

CellToFloat ==
    /\ cpc = "idle"
    /\ \E x \in CellInputs :
           /\ c_fn' = "to_float"
           /\ c_in' = x
           /\ c_out' = to_float(x)
    /\ cpc' = "done"
    /\ UNCHANGED outsideCell

NextCell == CellAsCheck \/ CellAsFloat \/ CellToFloat

SpecCell == InitCell /\ [][NextCell]_vars

\* C7: as_check maps "1", "true", "yes" to a check mark, maps "0", "false",
\* "no" to the empty string, and returns every other input string unchanged.
C7_AsCheckMapping ==
    (cpc = "done" /\ c_fn = "as_check" /\ c_in # None) =>
        IF c_in \in { T1("1"), T4("t", "r", "u", "e"), T3("y", "e", "s") }
        THEN c_out = T1(CheckMark)
        ELSE IF c_in \in { T1("0"), T5("f", "a", "l", "s", "e"), T2("n", "o") }
        THEN c_out = << >>
        ELSE c_out = c_in

----------------------------------------------------------------------------
(* fig6 main: load_rows and the choice of the columns *)

MaxHeader == 2
MaxRows == 2

HeaderNames ==
    { Preferred[i] : i \in 1..Len(Preferred) } \cup { q[1] : q \in PaddedNames }

Fig6Headers == UNION { [1..m -> HeaderNames] : m \in 0..MaxHeader }

\* the rows a file of this header can hold: of any number of fields, none
\* (a blank line) to one more than the header has; no rows without a header
Fig6Cells == { T2(" ", "1") }

Fig6RowsOf(header) ==
    IF header = << >> THEN { << >> }
    ELSE UNION { [1..m -> UNION { [1..w -> Fig6Cells] : w \in 0..(Len(header) + 1) }]
                 : m \in 0..MaxRows }

InitFig6 ==
    /\ TteIdle /\ Fig4Idle /\ RootIdle /\ CellIdle /\ EpsIdle /\ FigIdle
    /\ tpc = "idle"
    /\ t_header \in Fig6Headers
    /\ t_rows \in Fig6RowsOf(t_header)
    /\ t_dicts = << >>
    /\ t_cols = << >>

\* rows = load_rows(args.csv), line 83
Fig6Load ==
    /\ tpc = "idle"
    /\ \E rows \in { DataRows(t_rows) } :
           IF \E i \in 1..Len(rows) : RowRaises(t_header, rows[i])
           THEN tpc' = "raised" /\ t_dicts' = << >>
           ELSE /\ tpc' = "loaded"
                /\ t_dicts' = [i \in 1..Len(rows) |-> RowDict(t_header, rows[i])]
    /\ UNCHANGED << t_header, t_rows, t_cols >>
    /\ UNCHANGED outsideFig6

\* present_keys and cols, lines 98-99, and the table drawn with these columns
Fig6Render ==
    /\ tpc = "loaded"
    /\ t_cols' = cols_of(t_dicts)
    /\ tpc' = "rendered"
    /\ UNCHANGED << t_header, t_rows, t_dicts >>
    /\ UNCHANGED outsideFig6

NextFig6 == Fig6Load \/ Fig6Render

SpecFig6 == InitFig6 /\ [][NextFig6]_vars

\* the columns present in the file, in the preferred order
ColumnsInFile ==
    SelectSeq(Preferred,
              LAMBDA c : \E i \in 1..Len(t_header) : StripName(t_header[i]) = c)

----------------------------------------------------------------------------
(* load_eps_list of fig3 and fig4 *)

MaxEpsRows == 2

EpsHeaders ==
    { << >>, T1("epsilon_coup"), T1("other"), T1(" epsilon_coup"),
      T2("other", "epsilon_coup"), T2("epsilon_coup", "other") }

EpsCells ==
    { << >>, T1(" "), T3("0", ".", "5"), T5(" ", ".", "0", "5", " "),
      T2("5", "."), T2("-", "5"), T3("a", "b", "c") }

OtherCells == { T1("a") }

\* the rows of a file of this header: one field to one more than the header has
EpsRow(header) ==
    UNION { { r \in [1..w -> EpsCells \cup OtherCells] :
                \A i \in 1..w :
                    IF i <= Len(header) /\ header[i] = "epsilon_coup"
                    THEN r[i] \in EpsCells ELSE r[i] \in OtherCells }
            : w \in 1..(Len(header) + 1) }

EpsFiles ==
    { NoFile } \cup
    UNION { UNION { { [exists |-> TRUE, header |-> h, rows |-> rs] :
                        rs \in [1..m -> EpsRow(h)] }
                    : m \in 0..(IF h = << >> THEN 0 ELSE MaxEpsRows) }
            : h \in EpsHeaders }

InitEps ==
    /\ TteIdle /\ Fig4Idle /\ RootIdle /\ CellIdle /\ Fig6Idle /\ FigIdle
    /\ lpc = "idle"
    /\ l_fn = "none"
    /\ l_file \in EpsFiles
    /\ l_out = << >>

\* fig4: eps_list = load_eps_list(args.params), line 91
Fig4LoadEps ==
    /\ lpc = "idle"
    /\ \E r \in { load_eps_list(l_file) } :
           /\ lpc' = IF r.raised THEN "raised" ELSE "returned"
           /\ l_out' = r.out
    /\ l_fn' = "fig4"
    /\ UNCHANGED l_file
    /\ UNCHANGED outsideEps

\* fig3: eps_list = load_eps_list(args.params), line 94
Fig3LoadEps ==
    /\ lpc = "idle"
    /\ \E r \in { fig3_load_eps_list(l_file) } :
           /\ lpc' = IF r.raised THEN "raised" ELSE "returned"
           /\ l_out' = r.out
    /\ l_fn' = "fig3"
    /\ UNCHANGED l_file
    /\ UNCHANGED outsideEps

NextEps == Fig4LoadEps \/ Fig3LoadEps

SpecEps == InitEps /\ [][NextEps]_vars

HasEpsColumn ==
    /\ l_file.exists
    /\ \E i \in 1..Len(l_file.header) : l_file.header[i] = "epsilon_coup"

\* the epsilon_coup cells of the file that are not blank
FileEpsTexts ==
    IF HasEpsColumn THEN EpsTexts(l_file.header, l_file.rows) ELSE << >>

C10_DefaultsOrFile ==
    lpc # "idle" =>
        /\ FileEpsTexts = << >> => (lpc = "returned" /\ l_out = LoadDefaults)
        /\ (\E i \in 1..Len(FileEpsTexts) : ~FloatOf(FileEpsTexts[i]).nan) =>
               /\ lpc = "returned"
               /\ l_out = Sorted(SelectSeq([i \in 1..Len(FileEpsTexts) |->
                                               FloatOf(FileEpsTexts[i])],
                                           LAMBDA v : ~v.nan))

----------------------------------------------------------------------------
(* lag_to_tau_rg and y2_value of fig5 applied to any row *)

\* the cells tried in the lag columns and in the Fig5b columns
LagCells == { << >>, T1("2"), T1("x"), T2("-", "1"), T1("0") }
Y2Cells ==
    { << >>, T1("x"), T1("0"), T2("-", "2"), T3("0", ".", "3"),
      T3("1", ".", "5"), T3("1", ".", "6"), T2("3", "0") }

\* the rows: every choice of the columns present and of their cells
RowsOver(columns, cells) == UNION { [D -> cells] : D \in SUBSET columns }

LagRows ==
    RowsOver({ "lag_rg", "lag_s", "lag_ms", "lag_ks", "MBH_Msun" }, LagCells)

Y2Rows == RowsOver({ "hard_x_frac", "pol_pct" }, Y2Cells)

InitRow ==
    /\ CoreIdle /\ Fig5Idle /\ OutIdle /\ CallIdle
    /\ w_pc = "idle"
    /\ w_fn = "none"
    /\ w_row \in LagRows \cup Y2Rows
    /\ w_out = << >>

\* tau = lag_to_tau_rg(r), line 116
RowLag ==
    /\ w_pc = "idle"
    /\ w_fn' = "lag_to_tau_rg"
    /\ w_out' = lag_to_tau_rg(w_row)
    /\ w_pc' = "done"
    /\ UNCHANGED w_row
    /\ UNCHANGED outsideRow

\* yy, lbl = y2_value(r), line 119
RowY2 ==
    /\ w_pc = "idle"
    /\ w_fn' = "y2_value"
    /\ w_out' = y2_value(w_row)
    /\ w_pc' = "done"
    /\ UNCHANGED w_row
    /\ UNCHANGED outsideRow

NextRow == RowLag \/ RowY2

SpecRow == InitRow /\ [][NextRow]_vars

\* the number in a column of the row, NaN when absent or unparseable
Num(key) == to_float(Get(w_row, key))

----------------------------------------------------------------------------
(* fig5 main on a candidates file *)

MaxFig5Rows == 2

\* headers of the candidates file
Fig5Headers ==
    { << "name", "a_eq", "lag_rg" >>,
      << "a_eq", "lag_s", "MBH_Msun" >>,
      << "a_eq", "hard_x_frac", "pol_pct" >>,
      << "a_eq", "lag_rg", "pol_pct" >>,
      << "id", "lag_rg", "pol_pct" >>,
      << "a_eq", "a_eq_lo", "a_eq_hi", "lag_rg" >>,
      << "a_eq", "lag_rg", "lag_rg_lo", "lag_rg_hi" >> }

\* the cells tried in a column
ColCells(c) ==
    IF c \in { "name", "id" } THEN { T1("A") }
    ELSE IF c \in { "a_eq", "a_eq_lo", "a_eq_hi", "lag_rg_lo", "lag_rg_hi" }
    THEN { T3("0", ".", "9"), T1("x") }
    ELSE IF c \in { "hard_x_frac", "pol_pct" }
    THEN { << >>, T1("2"), T1("x") }
    ELSE { T1("2"), T1("x") }

\* the data rows of a file with this header, and one row that is too short
Fig5RowsFor(header) ==
    { row \in [1..Len(header) -> UNION { ColCells(header[i]) : i \in 1..Len(header) }] :
        \A i \in 1..Len(header) : row[i] \in ColCells(header[i]) }
    \cup { << T3("0", ".", "9") >> }

Fig5LinesOf(header) ==
    UNION { [1..n -> Fig5RowsFor(header)] : n \in 0..MaxFig5Rows }

InitFig5 ==
    /\ CoreIdle
    /\ RowIdle
    /\ OutIdle
    /\ CallIdle
    /\ f5_pc = "start"
    /\ f5_header \in Fig5Headers
    /\ f5_lines \in Fig5LinesOf(f5_header)
    /\ f5_rows = << >> /\ f5_names = << >> /\ f5_aeqs = << >>
    /\ f5_tau_rg = << >> /\ f5_xerr = << >> /\ f5_yerr = << >>
    /\ f5_names2 = << >> /\ f5_aeqs2 = << >> /\ f5_y2s = << >>
    /\ f5_y2label = "" /\ f5_plot_a = << >> /\ f5_plot_b = << >>

\* rows = load_rows(args.csv), line 107
Fig5Load ==
    /\ f5_pc = "start"
    /\ \E l \in { fig5_load_rows(f5_header, f5_lines) } :
           /\ f5_pc' = IF l.raised THEN "raised" ELSE "loaded"
           /\ f5_rows' = l.rows
    /\ UNCHANGED << f5_header, f5_lines, f5_names, f5_aeqs, f5_tau_rg,
                    f5_xerr, f5_yerr, f5_names2, f5_aeqs2, f5_y2s,
                    f5_y2label, f5_plot_a, f5_plot_b >>
    /\ UNCHANGED outsideFig5

\* the two loops over rows, lines 110-145
Fig5Collect ==
    /\ f5_pc = "loaded"
    /\ \E sa \in { Fig5aSeries(f5_rows) }, sb \in { Fig5bSeries(f5_rows) } :
           /\ f5_names' = sa.names
           /\ f5_aeqs' = sa.aeqs
           /\ f5_tau_rg' = sa.tau_rg
           /\ f5_xerr' = sa.xerr
           /\ f5_yerr' = sa.yerr
           /\ f5_names2' = sb.names2
           /\ f5_aeqs2' = sb.aeqs2
           /\ f5_y2s' = sb.y2s
    /\ f5_y2label' = FirstLabel(f5_rows)
    /\ f5_pc' = "collected"
    /\ UNCHANGED << f5_header, f5_lines, f5_rows, f5_plot_a, f5_plot_b >>
    /\ UNCHANGED outsideFig5

\* Fig5a is drawn, lines 147-175
Fig5PlotA ==
    /\ f5_pc = "collected"
    /\ f5_plot_a' = PointsA(f5_aeqs, f5_tau_rg, f5_xerr, f5_yerr)
    /\ f5_pc' = "fig5a"
    /\ UNCHANGED << f5_header, f5_lines, f5_rows, f5_names, f5_aeqs,
                    f5_tau_rg, f5_xerr, f5_yerr, f5_names2, f5_aeqs2, f5_y2s,
                    f5_y2label, f5_plot_b >>
    /\ UNCHANGED outsideFig5

\* Fig5b is drawn, lines 177-197
Fig5PlotB ==
    /\ f5_pc = "fig5a"
    /\ f5_plot_b' = PointsB(f5_aeqs2, f5_y2s)
    /\ f5_pc' = "fig5b"
    /\ UNCHANGED << f5_header, f5_lines, f5_rows, f5_names, f5_aeqs,
                    f5_tau_rg, f5_xerr, f5_yerr, f5_names2, f5_aeqs2, f5_y2s,
                    f5_y2label, f5_plot_a >>
    /\ UNCHANGED outsideFig5

NextFig5 == Fig5Load \/ Fig5Collect \/ Fig5PlotA \/ Fig5PlotB

SpecFig5 == InitFig5 /\ [][NextFig5]_vars

\* C11, the part of fig4: the tau series handed to semilogx holds no NaN
C11_Fig4TauFinite ==
    mpc = "plotted" => \A i \in 1..Len(taus) : ~taus[i].nan

\* C11, the part of fig5: every point drawn in Fig5a and in Fig5b has
\* coordinates that are not NaN, and an error bar has two bounds that are not NaN
C11_Fig5SeriesFinite ==
    /\ \A i \in 1..Len(f5_plot_a) :
           /\ ~f5_plot_a[i].x.nan
           /\ ~f5_plot_a[i].y.nan
           /\ f5_plot_a[i].xerr # None =>
                  ~f5_plot_a[i].xerr[1].nan /\ ~f5_plot_a[i].xerr[2].nan
           /\ f5_plot_a[i].yerr # None =>
                  ~f5_plot_a[i].yerr[1].nan /\ ~f5_plot_a[i].yerr[2].nan
    /\ \A i \in 1..Len(f5_plot_b) :
           ~f5_plot_b[i].x.nan /\ ~f5_plot_b[i].y.nan

\* C11: a parse failure yields NaN and no NaN is ever in a series handed to
\* a plot call: in fig5 the Fig5a and Fig5b series and the error bars, in
\* fig4 the tau series of Fig4a.
C11_NoNaNPlotted == C11_Fig4TauFinite /\ C11_Fig5SeriesFinite

\* fig5 has drawn a series of the file after leaving out a row with a NaN
C11_Fig5Witness ==
    /\ f5_pc = "fig5b"
    /\ Len(f5_rows) = 2
    /\ Len(f5_plot_a) = 1
    /\ ~f5_plot_a[1].demo
    /\ f5_plot_a[1].xerr # None


\* the rows with a number for a_eq and for the lag, and those with a number
\* for a_eq and for the Fig5b value, in the order of the file
RowsOfA ==
    SelectSeq(f5_rows, LAMBDA r : ~to_float(Get(r, "a_eq")).nan
                                      /\ ~lag_to_tau_rg(r).nan)
RowsOfB ==
    SelectSeq(f5_rows, LAMBDA r : ~to_float(Get(r, "a_eq")).nan
                                      /\ ~y2_value(r)[1].nan)

\* C17: the demo points are drawn in Fig5a if and only if no row of the file
\* has both a_eq and a lag that are not NaN, and in Fig5b if and only if no
\* row has both a_eq and a y2 value that are not NaN; otherwise only the
\* points of the file are drawn, one for each such row in the order of the
\* file.
C17_DemoIffEmpty ==
    /\ f5_pc \in { "fig5a", "fig5b" } =>
           \A ra \in { RowsOfA } :
               IF ra = << >>
               THEN /\ Len(f5_plot_a) = 2
                    /\ \A i \in 1..2 : f5_plot_a[i].demo
               ELSE /\ Len(f5_plot_a) = Len(ra)
                    /\ \A i \in 1..Len(ra) :
                           /\ ~f5_plot_a[i].demo
                           /\ f5_plot_a[i].x = to_float(Get(ra[i], "a_eq"))
                           /\ f5_plot_a[i].y = lag_to_tau_rg(ra[i])
    /\ f5_pc = "fig5b" =>
           \A rb \in { RowsOfB } :
               IF rb = << >>
               THEN /\ Len(f5_plot_b) = 2
                    /\ \A i \in 1..2 : f5_plot_b[i].demo
               ELSE /\ Len(f5_plot_b) = Len(rb)
                    /\ \A i \in 1..Len(rb) :
                           /\ ~f5_plot_b[i].demo
                           /\ f5_plot_b[i].x = to_float(Get(rb[i], "a_eq"))
                           /\ f5_plot_b[i].y = y2_value(rb[i])[1]

\* a file of two rows of which one is drawn in Fig5a, and Fig5b shows the
\* demo points
C17_Witness ==
    /\ f5_pc = "fig5b"
    /\ Len(f5_rows) = 2
    /\ Len(f5_plot_a) = 1
    /\ ~f5_plot_a[1].demo
    /\ f5_plot_a[1].x = to_float(Get(f5_rows[2], "a_eq"))
    /\ f5_plot_b[1].demo

----------------------------------------------------------------------------
(* A script run for its output files, once and then once again *)

\* the paths tried for an output whose default is d: the default, the bare
\* file name, and the file in a directory two levels down
OutChoices(d) == { d, << d[Len(d)] >>, << "a", "b", d[Len(d)] >> }

\* the argument lists of a script
OutArgs(script) ==
    IF script.args
    THEN { outs \in [1..Len(script.outs) -> UNION { OutChoices(script.outs[i]) : i \in 1..Len(script.outs) }] :
              \A i \in 1..Len(script.outs) : outs[i] \in OutChoices(script.outs[i]) }
    ELSE { script.outs }

\* the directories that may exist before the run: the working directory and
\* the directory above the scripts always do
StartDirs ==
    { ds \cup { << >>, Root } :
        ds \in { ds \in SUBSET { << "figures" >>, << "figures", "polished" >>,
                                 << "a" >>, << "a", "b" >>,
                                 Root \o << "figures" >> } :
                    \A d \in ds : Len(d) = 2 /\ d[1] # Root[1]
                                      => SubSeq(d, 1, 1) \in ds } }

InitOut ==
    /\ CoreIdle /\ RowIdle /\ Fig5Idle /\ CallIdle
    /\ o_pc = "run"
    /\ o_script \in Scripts
    /\ o_outs \in OutArgs(o_script)
    /\ o_polished \in (IF o_script.args THEN BOOLEAN ELSE { FALSE })
    /\ o_i = 1
    /\ o_path = << >>
    /\ o_dirs \in StartDirs
    /\ o_files = {}
    /\ o_written = << >>
    /\ o_first = << >>
    /\ o_run = 1

\* out = ensure_out(args.out, args.polished)
EnsureOut ==
    /\ o_pc = "run"
    /\ o_script.how = "ensure_out"
    /\ \E r \in { ensure_out(o_dirs, o_outs[o_i], o_polished) } :
           /\ o_pc' = IF r.raised THEN "raised" ELSE "dir"
           /\ o_dirs' = r.dirs
           /\ o_path' = IF r.raised THEN o_path ELSE r.ret
    /\ UNCHANGED << o_script, o_outs, o_polished, o_i, o_files, o_written,
                    o_first, o_run >>
    /\ UNCHANGED outsideOut

\* out.parent.mkdir(parents=True, exist_ok=True)
ParentMkdir ==
    /\ o_pc = "run"
    /\ o_script.how = "mkdir"
    /\ o_dirs' = mkdir_parents(o_dirs, split(o_outs[o_i])[1])
    /\ o_path' = o_outs[o_i]
    /\ o_pc' = "dir"
    /\ UNCHANGED << o_script, o_outs, o_polished, o_i, o_files, o_written,
                    o_first, o_run >>
    /\ UNCHANGED outsideOut

\* fig.savefig(path): FileNotFoundError when the directory does not exist;
\* info_graphic_p1 calls it without making the directory
Savefig ==
    /\ \/ o_pc = "dir"
       \/ o_pc = "run" /\ o_script.how = "none"
    /\ \E file \in { IF o_pc = "dir" THEN o_path ELSE o_outs[o_i] } :
           IF split(file)[1] \in o_dirs
           THEN /\ o_files' = o_files \cup { file }
                /\ o_written' = Append(o_written, file)
                /\ o_path' = file
                /\ o_i' = o_i + 1
                /\ o_pc' = IF o_i = Len(o_outs) THEN "done" ELSE "run"
           ELSE /\ o_pc' = "raised"
                /\ UNCHANGED << o_files, o_written, o_path, o_i >>
    /\ UNCHANGED << o_script, o_outs, o_polished, o_dirs, o_first, o_run >>
    /\ UNCHANGED outsideOut

\* the script is run again with the same arguments
RunAgain ==
    /\ o_pc = "done"
    /\ o_run = 1
    /\ o_run' = 2
    /\ o_first' = o_written
    /\ o_written' = << >>
    /\ o_i' = 1
    /\ o_pc' = "run"
    /\ UNCHANGED << o_script, o_outs, o_polished, o_path, o_dirs, o_files >>
    /\ UNCHANGED outsideOut

NextOut == EnsureOut \/ ParentMkdir \/ Savefig \/ RunAgain

SpecOut == InitOut /\ [][NextOut]_vars

\* where --polished puts the file of --out = out
PolishedPath(out) ==
    SubSeq(out, 1, Len(out) - 1) \o << "polished", out[Len(out)] >>

\* C12: a script that takes --polished writes each file to
\* <directory of --out>/polished/<file name of --out> with the flag and to
\* exactly the --out path without it, and it does write the file.
C12_PolishedPath ==
    o_script \in { fig3_script, fig4_script, fig5_script, fig6_script, fig7_script } =>
        /\ o_pc # "raised"
        /\ \A j \in 1..Len(o_written) :
               o_written[j] = IF o_polished THEN PolishedPath(o_outs[j])
                              ELSE o_outs[j]


\* the run has the script's default arguments
DefaultArgs == o_outs = o_script.outs /\ ~o_polished

\* C13: every script makes the directories of its output files before it
\* writes them, so a run with default arguments succeeds in writing all of
\* its outputs although no figures/ directory exists when it starts.
C13_DefaultRunSucceeds ==
    (o_run = 1 /\ DefaultArgs) =>
        /\ o_pc # "raised"
        /\ o_pc = "done" => \A j \in 1..Len(o_outs) : o_outs[j] \in o_files

C18_EnsureOutCompletes ==
    o_script.how = "ensure_out" =>
        /\ o_pc # "raised"
        /\ o_pc = "dir" => split(o_path)[1] \in o_dirs

----------------------------------------------------------------------------
(* make_panel of fig10 and fig10_V2 called with any Reff > 0 *)

MaxReffTens == 40

\* the values of Reff tried; main calls make_panel(100, ..) and (1000, ..)
LabelReffs ==
    { 1, 2, 5 } \cup { 10 * r : r \in 1..MaxReffTens }
        \cup { 1000, 2000, 3000, 4000, 10000 }

InitLabel ==
    /\ CoreIdle /\ RowIdle /\ Fig5Idle /\ OutIdle
    /\ q_pc = "idle"
    /\ q_fn = "none"
    /\ q_in \in LabelReffs
    /\ q_out = << >>

\* fig10 make_panel, lines 73-81: _place_label(ax, x, y, k)
PlaceLabel ==
    /\ q_pc = "idle"
    /\ q_fn' = "_place_label"
    /\ \E i \in { place_label(q_in) } :
           q_out' = [i |-> i, x |-> GuideX(i), y |-> GuideY(q_in, i)]
    /\ q_pc' = "done"
    /\ UNCHANGED q_in
    /\ UNCHANGED outsideCall

\* fig10_V2 make_panel, lines 119-121 and the call of _place_l30_label
PlaceL30Label ==
    /\ q_pc = "idle"
    /\ q_fn' = "_place_l30_label"
    /\ \E i \in { place_l30_label(q_in) } :
           q_out' = [i |-> i, x |-> GuideX(i), y |-> GuideY(q_in, i)]
    /\ q_pc' = "done"
    /\ UNCHANGED q_in
    /\ UNCHANGED outsideCall

NextLabel == PlaceLabel \/ PlaceL30Label

SpecLabel == InitLabel /\ [][NextLabel]_vars

\* C19: for every Reff > 0 the anchor (x[i], y[i]) of the l = 30 label has
\* 0.01 < y[i] < 0.30, and i is a valid index of x.
C19_LabelInFrame ==
    q_pc = "done" =>
        /\ q_out.i \in 0..(LabelPoints - 1)
        /\ FracAbove(q_out.y, 1)
        /\ FracBelow(q_out.y, 30)

\* C19 for the values of Reff with a point of the line inside the margins
C19_LabelInFrameWhenInside ==
    (q_pc = "done" /\ Inside(q_in) # {}) =>
        /\ q_out.i \in 0..(LabelPoints - 1)
        /\ FracAbove(q_out.y, 1)
        /\ FracBelow(q_out.y, 30)

----------------------------------------------------------------------------
(* onset_curve called on two spins with any arguments *)

MaxOnsetGap == 12

\* a_th, and a_right - a_th and a - a_th, in units of 1e-10
OnsetInputs ==
    [a_th : { 0, 3 }, gap : (-1)..MaxOnsetGap,
     d1 : (-2)..(MaxOnsetGap + 2), d2 : (-2)..(MaxOnsetGap + 2),
     floor : { 0, 1 }, amp : { 0, 12 }, n : { 1, 2, 4 }]

InitOnset ==
    /\ CoreIdle /\ RowIdle /\ Fig5Idle /\ OutIdle
    /\ q_pc = "idle"
    /\ q_fn = "none"
    /\ \E v \in OnsetInputs :
           q_in = [a |-> << v.a_th + v.d1, v.a_th + v.d2 >>, a_th |-> v.a_th,
                   a_right |-> v.a_th + v.gap, floor |-> v.floor,
                   amp |-> v.amp, n |-> v.n]
    /\ q_out = << >>

\* y = onset_curve(a, a_th=.., floor=.., amp=.., n=.., a_right=..), line 43
OnsetCall ==
    /\ q_pc = "idle"
    /\ q_fn' = "onset_curve"
    /\ q_out' = onset_curve(q_in.a, q_in.a_th, q_in.floor, q_in.amp, q_in.n,
                            q_in.a_right)
    /\ q_pc' = "done"
    /\ UNCHANGED q_in
    /\ UNCHANGED outsideCall

NextOnset == OnsetCall

SpecOnset == InitOnset /\ [][NextOnset]_vars

\* u = c, c <= u, u <= c for a fraction u with a positive denominator and a
\* whole number c; u <= v for two fractions over one denominator
FracIs(u, c) == u[1] = c * u[2]
FracAtLeast(u, c) == c * u[2] <= u[1]
FracAtMost(u, c) == u[1] <= c * u[2]
FracLeq(u, v) == u[2] = v[2] /\ u[1] <= v[1]

\* the four properties of C20 for the two spins of the call
OnsetShape ==
    /\ \A j \in 1..2 :
           /\ q_in.a[j] <= q_in.a_th => FracIs(q_out[j], q_in.floor)
           /\ q_in.a[j] >= q_in.a_right =>
                  FracIs(q_out[j], q_in.floor + q_in.amp)
           /\ FracAtLeast(q_out[j], q_in.floor)
           /\ FracAtMost(q_out[j], q_in.floor + q_in.amp)
    /\ q_in.a[1] <= q_in.a[2] => FracLeq(q_out[1], q_out[2])

\* C20: for a_th < a_right, amp >= 0 and n > 0, onset_curve equals floor for
\* every a <= a_th, equals floor + amp for every a >= a_right, is
\* non-decreasing in a, and every value lies in [floor, floor + amp].
C20_OnsetShape ==
    (q_pc = "done" /\ q_in.a_th < q_in.a_right) => OnsetShape

\* C20 for a_right - a_th of at least 1e-9
C20_OnsetShapeWideGap ==
    (q_pc = "done" /\ q_in.a_right - q_in.a_th >= OnsetTiny) => OnsetShape

----------------------------------------------------------------------------
(* fig_equatorial_trigger_schematic: build_figure in the scripts/ copy and
   in the StarterKit copy.  A figure is the record of what was added to its
   axes: the number of plasmoid circles, whether the labels have a
   background, and the number of legend handles (0: no legend was added). *)

LegendHandles == 6

\* np.linspace(-3.0, 3.0, n) raises for n < 0 and xs[0] raises for n = 0
PlasmoidsRaise(n_plasmoids) == n_plasmoids < 1

NoFigure == [raised |-> TRUE, circles |-> 0, label_bg |-> FALSE, legend |-> 0]

\* scripts/ copy: "if with_legend:" guards ax.legend (lines 153-172)
build_figure(n_plasmoids, with_legend, label_bg) ==
    IF PlasmoidsRaise(n_plasmoids) THEN NoFigure
    ELSE [raised |-> FALSE, circles |-> n_plasmoids, label_bg |-> label_bg,
          legend |-> IF with_legend THEN LegendHandles ELSE 0]

\* StarterKit copy: ax.legend is called on every path (lines 122-140)
build_figure_kit(n_plasmoids, with_legend, label_bg) ==
    IF PlasmoidsRaise(n_plasmoids) THEN NoFigure
    ELSE [raised |-> FALSE, circles |-> n_plasmoids, label_bg |-> label_bg,
          legend |-> LegendHandles]

MaxPlasmoids == 9

LegendInputs ==
    [n_plasmoids : 0..MaxPlasmoids, with_legend : BOOLEAN,
     label_bg : BOOLEAN, no_legend : BOOLEAN]

InitLegend ==
    /\ CoreIdle /\ RowIdle /\ Fig5Idle /\ OutIdle
    /\ q_pc = "idle"
    /\ q_fn = "none"
    /\ q_in \in LegendInputs
    /\ q_out = << >>

\* a direct call build_figure(n_plasmoids, ..., with_legend, label_bg) of
\* the scripts/ copy
BuildFigure ==
    /\ q_pc = "idle"
    /\ q_fn' = "build_figure"
    /\ q_out' = [with_legend |-> q_in.with_legend,
                 fig |-> build_figure(q_in.n_plasmoids, q_in.with_legend,
                                      q_in.label_bg)]
    /\ q_pc' = "done"
    /\ UNCHANGED q_in
    /\ UNCHANGED outsideCall

\* main of the scripts/ copy: with_legend = not args.no_legend
EquatorialMain ==
    /\ q_pc = "idle"
    /\ q_fn' = "main"
    /\ q_out' = [with_legend |-> ~ q_in.no_legend,
                 fig |-> build_figure(q_in.n_plasmoids, ~ q_in.no_legend,
                                      q_in.label_bg)]
    /\ q_pc' = "done"
    /\ UNCHANGED q_in
    /\ UNCHANGED outsideCall

\* a direct call of the StarterKit copy
BuildFigureKit ==
    /\ q_pc = "idle"
    /\ q_fn' = "build_figure_kit"
    /\ q_out' = [with_legend |-> q_in.with_legend,
                 fig |-> build_figure_kit(q_in.n_plasmoids, q_in.with_legend,
                                          q_in.label_bg)]
    /\ q_pc' = "done"
    /\ UNCHANGED q_in
    /\ UNCHANGED outsideCall

\* main of the StarterKit copy: build_figure(n_plasmoids, opening_deg), so
\* with_legend and label_bg keep their defaults False
EquatorialMainKit ==
    /\ q_pc = "idle"
    /\ q_fn' = "main_kit"
    /\ q_out' = [with_legend |-> FALSE,
                 fig |-> build_figure_kit(q_in.n_plasmoids, FALSE, FALSE)]
    /\ q_pc' = "done"
    /\ UNCHANGED q_in
    /\ UNCHANGED outsideCall

NextLegend ==
    \/ BuildFigure
    \/ EquatorialMain
    \/ BuildFigureKit
    \/ EquatorialMainKit

SpecLegend == InitLegend /\ [][NextLegend]_vars

\* a figure was built, and it has a legend exactly when with_legend was true
LegendIffWithLegend ==
    (q_pc = "done" /\ ~ q_out.fig.raised) =>
        ((q_out.fig.legend > 0) <=> q_out.with_legend)

\* C21: in both copies of the script, build_figure adds a legend to the
\* figure if and only if with_legend is true.
C21_LegendIffWithLegend == LegendIffWithLegend

\* C21 for the scripts/ copy alone
C21_LegendIffWithLegendScripts ==
    q_fn \in { "build_figure", "main" } => LegendIffWithLegend

----------------------------------------------------------------------------
(* info_graphic_p2 and info_graphic_p3 run as scripts: the import block at
   module level, then main.  q_in keeps what the run started from: whether
   a module common can be imported, and the directories and files there
   were; q_out is what the process printed and its exit status. *)

\* the try/except around "import common" without its except branch
import_common_unguarded(importable) ==
    [go |-> TRUE, status |-> 0, printed |-> << "loaded" >>]

\* try: import common; print(loaded) / except ImportError: print the two
\* error lines; exit(1)
import_common(importable) ==
    IF importable
    THEN [go |-> TRUE, status |-> 0, printed |-> << "loaded" >>]
    ELSE [go |-> FALSE, status |-> 1,
          printed |-> << "Error: 'common.py' not found.",
                         "Please place 'common.py'" >>]

InfographicScripts == { info_graphic_p2_script, info_graphic_p3_script }

InitImport ==
    /\ CoreIdle /\ RowIdle /\ Fig5Idle
    /\ o_pc = "import"
    /\ o_script \in InfographicScripts
    /\ o_outs = o_script.outs
    /\ o_polished = FALSE
    /\ o_i = 1
    /\ o_path = << >>
    /\ o_dirs \in StartDirs
    /\ o_files \in { fs \in SUBSET { o_outs[1], << "figures", "other.pdf" >> } :
                        fs # {} => << "figures" >> \in o_dirs }
    /\ o_written = << >>
    /\ o_first = << >>
    /\ o_run = 1
    /\ q_pc = "idle"
    /\ q_fn = "none"
    /\ \E importable \in BOOLEAN :
           q_in = [common |-> importable, dirs |-> o_dirs, files |-> o_files]
    /\ q_out = [status |-> 0, printed |-> << >>]

\* lines 21-28 of info_graphic_p2, 26-33 of info_graphic_p3
ImportCommon ==
    /\ o_pc = "import"
    /\ \E r \in { import_common(q_in.common) } :
           /\ o_pc' = IF r.go THEN "main" ELSE "exit"
           /\ q_out' = [status |-> r.status, printed |-> r.printed]
    /\ UNCHANGED << o_script, o_outs, o_polished, o_i, o_path, o_dirs,
                    o_files, o_written, o_first, o_run >>
    /\ UNCHANGED << q_pc, q_fn, q_in >>
    /\ UNCHANGED << coreVars, rowVars, fig5Vars >>

\* main: out_dir = Path("figures"); out_dir.mkdir(parents=True, exist_ok=True)
InfographicMain ==
    /\ o_pc = "main"
    /\ o_dirs' = mkdir_parents(o_dirs, << "figures" >>)
    /\ o_path' = << "figures" >> \o << o_outs[o_i][Len(o_outs[o_i])] >>
    /\ o_pc' = "build"
    /\ UNCHANGED << o_script, o_outs, o_polished, o_i, o_files, o_written,
                    o_first, o_run >>
    /\ UNCHANGED callVars
    /\ UNCHANGED << coreVars, rowVars, fig5Vars >>

\* build_pdf_page_*: out_path.parent.mkdir(parents=True, exist_ok=True);
\* print; fig.savefig(out_path); print("Done.")
InfographicBuild ==
    /\ o_pc = "build"
    /\ o_dirs' = mkdir_parents(o_dirs, split(o_path)[1])
    /\ o_files' = o_files \cup { o_path }
    /\ o_written' = Append(o_written, o_path)
    /\ q_out' = [q_out EXCEPT !.printed = @ \o << "Building", "Done." >>]
    /\ o_pc' = "done"
    /\ UNCHANGED << o_script, o_outs, o_polished, o_i, o_path, o_first,
                    o_run >>
    /\ UNCHANGED << q_pc, q_fn, q_in >>
    /\ UNCHANGED << coreVars, rowVars, fig5Vars >>

NextImport == ImportCommon \/ InfographicMain \/ InfographicBuild

SpecImport == InitImport /\ [][NextImport]_vars

\* C22: if the module common cannot be imported, info_graphic_p2 and
\* info_graphic_p3 print an error message and exit with status 1 before
\* creating any directory or writing any file; if it can be imported they go
\* on to write figures/sspe_infographic_p2_flowchart.pdf and
\* figures/sspe_infographic_p3_hooks.pdf respectively.
C22_ImportGuard ==
    /\ (~ q_in.common /\ o_pc # "import") =>
           /\ o_pc = "exit"
           /\ q_out.status = 1
           /\ Len(q_out.printed) > 0
           /\ q_out.printed[1] = "Error: 'common.py' not found."
           /\ o_dirs = q_in.dirs
           /\ o_files = q_in.files
           /\ o_written = << >>
    /\ q_in.common =>
           /\ o_pc # "exit"
           /\ q_out.status = 0
           /\ o_pc = "done" =>
                  /\ o_written = << o_script.outs[1] >>
                  /\ o_script.outs[1] \in o_files
                  /\ << "figures" >> \in o_dirs

\* info_graphic_p3 has exited with status 1 where there is no figures/
C22_Witness ==
    /\ o_script = info_graphic_p3_script
    /\ ~ q_in.common
    /\ o_pc = "exit"
    /\ q_out.status = 1
    /\ << "figures" >> \notin o_dirs

\* info_graphic_p2 has written its file where there was no figures/
C22_WitnessWritten ==
    /\ o_script = info_graphic_p2_script
    /\ q_in.common
    /\ o_pc = "done"
    /\ << "figures" >> \notin q_in.dirs
    /\ << "figures", "sspe_infographic_p2_flowchart.pdf" >> \in o_files

----------------------------------------------------------------------------
(* fig4 main on the built-in default list *)

\* C23: for each of the default coupling values 0.005, 0.01, 0.02, 0.05 and
\* 0.10, time_to_equilibrium(eps) with its default arguments returns a
\* finite time, so Fig4a drawn without a parameter file has no NaN point.
C23_DefaultsFiniteTime ==
    eps_list = EpsDefaults =>
        /\ (pc = "returned" /\ a0 = DefaultA0 /\ max_steps = DefaultMaxSteps)
               => ~ret_nan
        /\ \A i \in 1..Len(taus) : ~taus[i].nan

\* C23 for the first four default values
C23_FirstFourFiniteTime ==
    eps_list = EpsDefaults =>
        /\ (pc = "returned" /\ idx <= 4) => ~ret_nan
        /\ \A i \in 1..Len(taus) : i <= 4 => ~taus[i].nan

----------------------------------------------------------------------------
(* The two root finders on their default grids, called with any float eps:
   a number, an infinity or NaN.  The result is [nan, v, path]. *)

\* y = torque_balance(grid, eps) for eps = +inf is -inf at every point and
\* for eps = -inf is +inf (the grid has 0 < a < 1): s has one sign, z is
\* empty and np.argmin of equal values is 0.  For eps = NaN every sample is
\* NaN, np.diff(np.sign(y)) is NaN, NaN != 0 is true: z[0] = 0 and the
\* interpolation of NaN samples is NaN.
finder_on_float(e, r) ==
    CASE e.kind = "num" -> [nan |-> FALSE, v |-> r[1], path |-> r[2]]
      [] e.kind = "nan" -> [nan |-> TRUE, v |-> 0, path |-> "interp"]
      [] OTHER -> [nan |-> FALSE, v |-> GridLo, path |-> "fallback"]

\* find_a_eq(eps) with the default grid
find_a_eq_default(e) ==
    finder_on_float(e, IF e.kind = "num"
                       THEN find_a_eq(e.v, GridLo, GridHi, Fig4GridN)
                       ELSE << >>)

\* find_equilibrium_spin(eps) with grid=None
find_equilibrium_spin_default(e) ==
    finder_on_float(e, IF e.kind = "num"
                       THEN find_equilibrium_spin(e.v, GridLo, GridHi, Fig3GridN)
                       ELSE << >>)

MaxAeqEps == 32

\* eps in steps of 0.002 from below 0 up, the values of RootEps, and the
\* floats that are not numbers
AeqEps ==
    { [kind |-> "num", v |-> j * (Scale \div 500)] : j \in (-2)..MaxAeqEps }
    \cup { [kind |-> "num", v |-> e] : e \in RootEps }
    \cup { [kind |-> c, v |-> 0] : c \in { "nan", "inf", "neginf" } }

InitAeq ==
    /\ CoreIdle /\ RowIdle /\ Fig5Idle /\ OutIdle
    /\ q_pc = "idle"
    /\ q_fn = "none"
    /\ q_in \in AeqEps
    /\ q_out = << >>

\* a_eq = find_a_eq(eps), line 65 of fig4
AeqFind4 ==
    /\ q_pc = "idle"
    /\ q_fn' = "find_a_eq"
    /\ q_out' = find_a_eq_default(q_in)
    /\ q_pc' = "done"
    /\ UNCHANGED q_in
    /\ UNCHANGED outsideCall

\* find_equilibrium_spin(e), line 167 of fig3
AeqFind3 ==
    /\ q_pc = "idle"
    /\ q_fn' = "find_equilibrium_spin"
    /\ q_out' = find_equilibrium_spin_default(q_in)
    /\ q_pc' = "done"
    /\ UNCHANGED q_in
    /\ UNCHANGED outsideCall

NextAeq == AeqFind4 \/ AeqFind3

SpecAeq == InitAeq /\ [][NextAeq]_vars

\* the returned value is a number of [grid[0], grid[-1]], strictly between
\* the integrator's clamps 0 and 0.9999
AeqInGrid ==
    /\ ~ q_out.nan
    /\ GridLo <= q_out.v
    /\ q_out.v <= GridHi
    /\ 0 < q_out.v
    /\ q_out.v < ClampHi

\* C24: for every eps, the value returned by find_a_eq (fig4) and by
\* find_equilibrium_spin (fig3) lies in [grid[0], grid[-1]] = [0.85, 0.9995]
\* on both paths, so the integration target a_eq is strictly below the upper
\* clamp 0.9999 and above the lower clamp 0.
C24_AeqInGrid == q_pc = "done" => AeqInGrid

\* C24 for every eps other than NaN, the infinities included
C24_AeqInGridNumbers ==
    (q_pc = "done" /\ q_in.kind # "nan") => AeqInGrid

\* find_a_eq has returned an interpolated crossing inside the grid, and the
\* fallback has returned an end of the grid
C24_Witness ==
    /\ q_pc = "done"
    /\ q_fn = "find_a_eq"
    /\ q_in.kind = "num"
    /\ q_out.path = "interp"
    /\ GridLo < q_out.v
    /\ q_out.v < GridHi

\* the fallback path has returned the upper end of the grid
C24_WitnessFallback ==
    /\ q_pc = "done"
    /\ q_in.kind = "num"
    /\ q_out.path = "fallback"
    /\ q_out.v = GridHi

=============================================================================
